---------------------------- MODULE Spec2Model ----------------------------
(***************************************************************************)
(* Connect Four: the board logic (board.js), the computer opponent (ai.js) *)
(* and the game session controller (app.js), as a state machine.           *)
(*                                                                         *)
(* Cells: 0 = empty, 1 = Player 1 (Red), 2 = Player 2 / AI (Yellow).       *)
(* A board is a function [0..ROWS-1 -> [0..COLS-1 -> 0..2]], row 0 on top. *)
(***************************************************************************)
EXTENDS Integers, Sequences, FiniteSets, TLC

(***************************************************************************)
(* Program constants (board.js, ai.js)                                     *)
(***************************************************************************)
ROWS == 6

COLS == 7

WIN_LENGTH == 4

\* Number.POSITIVE_INFINITY of the search, larger than every score
Infinity == 1000000

WIN_SCORE == 10000

CENTER_COL == 3

CENTER_WEIGHT == 3

PAIR_WEIGHT == 2

HARD_DEPTH == 5

RowIdx == 0 .. (ROWS - 1)

ColIdx == 0 .. (COLS - 1)

\* currentBoard before the first game (null)
NullBoard == <<>>

Max2(a, b) == IF a >= b THEN a ELSE b

Min2(a, b) == IF a <= b THEN a ELSE b

(***************************************************************************)
(* board.js                                                                *)
(***************************************************************************)
createBoard == [r \in RowIdx |-> [c \in ColIdx |-> 0]]

\* board.map(row => [...row]): a new array per row, cell by cell
cloneBoard(board) == [r \in DOMAIN board |-> [c \in DOMAIN board[r] |-> board[r][c]]]

InBoard(row, col) == row >= 0 /\ row < ROWS /\ col >= 0 /\ col < COLS

\* the for loop of getLowestEmptyRow, from row downwards to 0
RECURSIVE ScanUp(_, _, _)
ScanUp(board, col, row) ==
    IF row < 0 THEN -1
    ELSE IF board[row][col] = 0 THEN row
    ELSE ScanUp(board, col, row - 1)

\* getLowestEmptyRow scanning from row 0: the topmost empty cell
getLowestEmptyRowFromTop(board, col) ==
    IF col < 0 \/ col >= COLS THEN -1
    ELSE IF board[0][col] = 0 THEN 0 ELSE -1

getLowestEmptyRow(board, col) ==
    IF col < 0 \/ col >= COLS THEN -1
    ELSE ScanUp(board, col, ROWS - 1)

\* board[row][col] = player
SetCell(board, row, col, player) ==
    [board EXCEPT ![row] = [@ EXCEPT ![col] = player]]

\* dropDisc: the result record, and the board after the call
dropDiscResult(board, col, player) ==
    LET row == getLowestEmptyRow(board, col)
    IN  IF row = -1 THEN [success |-> FALSE, row |-> -1]
        ELSE [success |-> TRUE, row |-> row]

\* dropDisc writing one row above the row it reports
dropDiscBoardRowAbove(board, col, player) ==
    LET row == getLowestEmptyRow(board, col)
    IN  IF row = -1 THEN board
        ELSE SetCell(board, IF row > 0 THEN row - 1 ELSE row, col, player)

\* dropDisc writing the top cell of a full column before it reports failure
dropDiscBoardOverwrite(board, col, player) ==
    LET row == getLowestEmptyRow(board, col)
    IN  IF row = -1
        THEN (IF col \in ColIdx THEN SetCell(board, 0, col, player) ELSE board)
        ELSE SetCell(board, row, col, player)

\* dropDisc writing the top cell of the column whatever row it reports
dropDiscBoardAtTop(board, col, player) ==
    LET row == getLowestEmptyRow(board, col)
    IN  IF row = -1 THEN board
        ELSE SetCell(board, 0, col, player)

dropDiscBoard(board, col, player) ==
    LET row == getLowestEmptyRow(board, col)
    IN  IF row = -1 THEN board
        ELSE SetCell(board, row, col, player)

\* isColumnFull as board[0][col] > 0: an index outside the row reads undefined,
\* which is not > 0
isColumnFullInRange(board, col) ==
    IF col \in ColIdx THEN board[0][col] # 0 ELSE FALSE

\* isColumnFull reading the bottom row in place of the top row
isColumnFullBottom(board, col) ==
    IF col \in ColIdx THEN board[ROWS - 1][col] # 0 ELSE TRUE

\* board[0][col] !== 0; an index outside the row reads undefined, which is !== 0
isColumnFull(board, col) ==
    IF col \in ColIdx THEN board[0][col] # 0 ELSE TRUE

\* isBoardFull with some in place of every
isBoardFullSome(board) == \E c \in ColIdx : board[0][c] # 0

\* isBoardFull with the test of each top cell inverted
isBoardFullInverted(board) == \A c \in ColIdx : board[0][c] = 0

isBoardFull(board) == \A c \in ColIdx : board[0][c] # 0

\* the directions with the diagonals ahead of the horizontal and the vertical
DirectionsDiagonalsFirst == << <<1, 1>>, <<1, -1>>, <<0, 1>>, <<1, 0>> >>

\* the directions with the horizontal in the place of the vertical
DirectionsNoVertical == << <<0, 1>>, <<0, 1>>, <<1, 1>>, <<1, -1>> >>

Directions == << <<0, 1>>, <<1, 0>>, <<1, 1>>, <<1, -1>> >>

\* One of the two inner loops of checkWin: the cells at distance i, i+1, ...
\* (below WIN_LENGTH) from the start along (dRow, dCol) that hold player,
\* up to the first cell that is outside the board or does not.
RECURSIVE Run(_, _, _, _, _, _, _)
\* the inner loop comparing with >= in place of ===: a Yellow cell counts
\* for Red
RunAtLeast(board, startRow, startCol, dRow, dCol, player, i) ==
    IF i >= WIN_LENGTH THEN << >>
    ELSE LET row == startRow + dRow * i
             col == startCol + dCol * i
         IN  IF ~InBoard(row, col) THEN << >>
             ELSE IF board[row][col] >= player
                  THEN << <<row, col>> >> \o Run(board, startRow, startCol, dRow, dCol, player, i + 1)
                  ELSE << >>

Run(board, startRow, startCol, dRow, dCol, player, i) ==
    IF i >= WIN_LENGTH THEN << >>
    ELSE LET row == startRow + dRow * i
             col == startCol + dCol * i
         IN  IF ~InBoard(row, col) THEN << >>
             ELSE IF board[row][col] = player
                  THEN << <<row, col>> >> \o Run(board, startRow, startCol, dRow, dCol, player, i + 1)
                  ELSE << >>

Reverse(s) == [i \in 1 .. Len(s) |-> s[Len(s) + 1 - i]]

Take(s, n) == [i \in 1 .. Min2(n, Len(s)) |-> s[i]]

\* checkWin's loop body without the backward extension
LineAlongForward(board, startRow, startCol, player, d) ==
    << <<startRow, startCol>> >> \o Run(board, startRow, startCol, d[1], d[2], player, 1)

\* the body of checkWin's loop for one direction: the assembled line
LineAlong(board, startRow, startCol, player, d) ==
    LET fwd == Run(board, startRow, startCol, d[1], d[2], player, 1)
        bwd == IF 1 + Len(fwd) < WIN_LENGTH
               THEN Run(board, startRow, startCol, -d[1], -d[2], player, 1)
               ELSE << >>
    IN  Reverse(bwd) \o << <<startRow, startCol>> >> \o fwd

RECURSIVE CheckWinFrom(_, _, _, _, _)
CheckWinFrom(board, startRow, startCol, player, k) ==
    IF k > Len(Directions) THEN [win |-> FALSE, line |-> << >>]
    ELSE LET line == LineAlong(board, startRow, startCol, player, Directions[k])
         IN  IF Len(line) >= WIN_LENGTH
             THEN [win |-> TRUE, line |-> Take(line, WIN_LENGTH)]
             ELSE CheckWinFrom(board, startRow, startCol, player, k + 1)

\* checkWin looking along the horizontal only
checkWinRowOnly(board, startRow, startCol, player) ==
    LET line == LineAlong(board, startRow, startCol, player, Directions[1])
    IN  IF Len(line) >= WIN_LENGTH
        THEN [win |-> TRUE, line |-> Take(line, WIN_LENGTH)]
        ELSE [win |-> FALSE, line |-> << >>]

checkWin(board, startRow, startCol, player) ==
    CheckWinFrom(board, startRow, startCol, player, 1)

\* ascending list of the columns that are not full
RECURSIVE AvailFrom(_, _)
AvailFrom(board, col) ==
    IF col >= COLS THEN << >>
    ELSE (IF ~isColumnFull(board, col) THEN <<col>> ELSE << >>) \o AvailFrom(board, col + 1)

\* getAvailableMoves with its loop starting at column 1
getAvailableMovesFromOne(board) == AvailFrom(board, 1)

getAvailableMoves(board) == AvailFrom(board, 0)

Other(player) == IF player = 1 THEN 2 ELSE 1

\* the first scan of evaluateBoard and of minimax, row-major: 1 if a cell of
\* player anchors a win first, -1 if a cell of opponent does, 0 if none
RECURSIVE WinScan(_, _, _, _)
WinScan(board, player, opponent, idx) ==
    IF idx >= ROWS * COLS THEN 0
    ELSE LET row == idx \div COLS
             col == idx % COLS
         IN  IF board[row][col] = player /\ checkWin(board, row, col, player).win THEN 1
             ELSE IF board[row][col] = opponent /\ checkWin(board, row, col, opponent).win THEN -1
             ELSE WinScan(board, player, opponent, idx + 1)

\* one of evaluateBoard's pair loops: rows 0..rowHi, columns colLo..colHi,
\* +PAIR_WEIGHT for a pair of player at (row,col),(row+dr,col+dc), -PAIR_WEIGHT
\* for a pair of opponent
RECURSIVE PairSum(_, _, _, _, _, _, _, _, _, _)
PairSum(board, player, opponent, dr, dc, rowHi, colLo, colHi, row, col) ==
    IF row > rowHi THEN 0
    ELSE IF col > colHi
         THEN PairSum(board, player, opponent, dr, dc, rowHi, colLo, colHi, row + 1, colLo)
    ELSE (IF board[row][col] = player /\ board[row + dr][col + dc] = player
          THEN PAIR_WEIGHT ELSE 0)
         - (IF board[row][col] = opponent /\ board[row + dr][col + dc] = opponent
            THEN PAIR_WEIGHT ELSE 0)
         + PairSum(board, player, opponent, dr, dc, rowHi, colLo, colHi, row, col + 1)

\* the center column loop of evaluateBoard
RECURSIVE CenterSum(_, _, _, _)
CenterSum(board, player, opponent, row) ==
    IF row >= ROWS THEN 0
    ELSE (IF board[row][CENTER_COL] = player THEN CENTER_WEIGHT
          ELSE IF board[row][CENTER_COL] = opponent THEN -CENTER_WEIGHT
          ELSE 0)
         + CenterSum(board, player, opponent, row + 1)

\* evaluateBoard without its scan for a finished four
evaluateBoardNoWinScan(board, player) ==
    LET opponent == Other(player)
    IN  CenterSum(board, player, opponent, 0)
        + PairSum(board, player, opponent, 0, 1, ROWS - 1, 0, COLS - 2, 0, 0)
        + PairSum(board, player, opponent, 1, 0, ROWS - 2, 0, COLS - 1, 0, 0)
        + PairSum(board, player, opponent, 1, 1, ROWS - 2, 0, COLS - 2, 0, 0)
        + PairSum(board, player, opponent, 1, -1, ROWS - 2, 1, COLS - 1, 0, 1)

\* evaluateBoard without its loop over the down-left diagonal pairs
evaluateBoardNoDownLeft(board, player) ==
    LET opponent == Other(player)
        w == WinScan(board, player, opponent, 0)
    IN  IF w = 1 THEN WIN_SCORE
        ELSE IF w = -1 THEN -WIN_SCORE
        ELSE CenterSum(board, player, opponent, 0)
             + PairSum(board, player, opponent, 0, 1, ROWS - 1, 0, COLS - 2, 0, 0)
             + PairSum(board, player, opponent, 1, 0, ROWS - 2, 0, COLS - 1, 0, 0)
             + PairSum(board, player, opponent, 1, 1, ROWS - 2, 0, COLS - 2, 0, 0)

evaluateBoard(board, player) ==
    LET opponent == Other(player)
        w == WinScan(board, player, opponent, 0)
    IN  IF w = 1 THEN WIN_SCORE
        ELSE IF w = -1 THEN -WIN_SCORE
        ELSE CenterSum(board, player, opponent, 0)
             + PairSum(board, player, opponent, 0, 1, ROWS - 1, 0, COLS - 2, 0, 0)
             + PairSum(board, player, opponent, 1, 0, ROWS - 2, 0, COLS - 1, 0, 0)
             + PairSum(board, player, opponent, 1, 1, ROWS - 2, 0, COLS - 2, 0, 0)
             + PairSum(board, player, opponent, 1, -1, ROWS - 2, 1, COLS - 1, 0, 1)

(***************************************************************************)
(* ai.js                                                                   *)
(***************************************************************************)
\* values Math.random() may return, in thousandths
RandUnits == {0, 500, 999}

\* Math.floor(Math.random() * availableMoves.length) with Math.random() = u/1000
RandomIndex(u, length) == (u * length) \div 1000

\* getEasyMove: the columns it can return, one per value of Math.random()
getEasyMove(availableMoves) ==
    {availableMoves[RandomIndex(u, Len(availableMoves)) + 1] : u \in RandUnits}

\* cloneBoard as [...board]: a new outer array over the same rows
cloneSharesRows == TRUE

\* cloneBoard as `return board`: the clone is the source itself
cloneSharesSource == TRUE

\* Whether the array cloneBoard returns shares its rows with its source:
\* board.map(row => [...row]) builds a new outer array and a new array per row,
\* so a write to a clone's cell never reaches the source.
cloneShares == FALSE

\* The functions of ai.js get a reference to the caller's board. Each operator
\* below returns, with the function's value, the caller's board as it is when
\* the function returns ("board"): a dropDisc on testBoard reaches the caller's
\* board exactly when testBoard shares its rows with it.

\* one loop of getMediumMove from index k on: the first column whose drop wins
\* for player (-1: none)
RECURSIVE FirstWinning(_, _, _, _)
FirstWinning(board, moves, player, k) ==
    IF k > Len(moves) THEN [col |-> -1, board |-> board]
    ELSE LET col == moves[k]
             testBoard == cloneBoard(board)
             result == dropDiscResult(testBoard, col, player)
             after == dropDiscBoard(testBoard, col, player)
             boardNow == IF cloneShares THEN after ELSE board
         IN  IF result.success /\ checkWin(after, result.row, col, player).win
             THEN [col |-> col, board |-> boardNow]
             ELSE FirstWinning(boardNow, moves, player, k + 1)

\* the preference order as the columns from left to right
centerOrderAscending == <<0, 1, 2, 3, 4, 5, 6>>

centerOrder == <<3, 2, 4, 1, 5, 0, 6>>

\* availableMoves.includes(x)
InSeq(x, s) == \E i \in 1 .. Len(s) : s[i] = x

\* the center-preference loop without the availableMoves.includes test
FirstCenteredAny(availableMoves, k) == centerOrder[k]

RECURSIVE FirstCentered(_, _)
FirstCentered(availableMoves, k) ==
    IF k > Len(centerOrder) THEN -1
    ELSE IF InSeq(centerOrder[k], availableMoves) THEN centerOrder[k]
    ELSE FirstCentered(availableMoves, k + 1)

\* getMediumMove with the block loop ahead of the win loop
getMediumMoveBlockFirst(board, availableMoves, aiPlayer) ==
    LET opponent == Other(aiPlayer)
        block == FirstWinning(board, availableMoves, opponent, 1)
        win == FirstWinning(block.board, availableMoves, aiPlayer, 1)
        center == FirstCentered(availableMoves, 1)
    IN  IF block.col # -1 THEN {block}
        ELSE IF win.col # -1 THEN {win}
        ELSE IF center # -1 THEN {[col |-> center, board |-> win.board]}
        ELSE {[col |-> c, board |-> win.board] : c \in getEasyMove(availableMoves)}

\* getMediumMove without the block loop
getMediumMoveNoBlock(board, availableMoves, aiPlayer) ==
    LET win == FirstWinning(board, availableMoves, aiPlayer, 1)
        center == FirstCentered(availableMoves, 1)
    IN  IF win.col # -1 THEN {win}
        ELSE IF center # -1 THEN {[col |-> center, board |-> win.board]}
        ELSE {[col |-> c, board |-> win.board] : c \in getEasyMove(availableMoves)}

\* the outcomes of getMediumMove: one, unless it falls back to getEasyMove
getMediumMove(board, availableMoves, aiPlayer) ==
    LET opponent == Other(aiPlayer)
        win == FirstWinning(board, availableMoves, aiPlayer, 1)
        block == FirstWinning(win.board, availableMoves, opponent, 1)
        center == FirstCentered(availableMoves, 1)
    IN  IF win.col # -1 THEN {win}
        ELSE IF block.col # -1 THEN {block}
        ELSE IF center # -1 THEN {[col |-> center, board |-> block.board]}
        ELSE {[col |-> c, board |-> block.board] : c \in getEasyMove(availableMoves)}

\* minimax, and its two loops over the available columns from index k on, with
\* the running best score and the running alpha / beta
RECURSIVE minimax(_, _, _, _, _, _, _)
RECURSIVE MaxLoop(_, _, _, _, _, _, _, _, _)
RECURSIVE MinLoop(_, _, _, _, _, _, _, _, _)
\* the maximizing loop cutting off as soon as one child has been scored
MaxLoopFirstChildOnly(board, depth, aiPlayer, opponent, moves, k, maxScore, alpha, beta) ==
    IF k > Len(moves) THEN [score |-> maxScore, board |-> board]
    ELSE LET col == moves[k]
             testBoard == cloneBoard(board)
             result == dropDiscResult(testBoard, col, aiPlayer)
             after == dropDiscBoard(testBoard, col, aiPlayer)
         IN  IF ~result.success
             THEN MaxLoop(board, depth, aiPlayer, opponent, moves, k + 1, maxScore, alpha, beta)
             ELSE LET sub == minimax(after, depth - 1, FALSE, aiPlayer, opponent, alpha, beta)
                      boardNow == IF cloneShares THEN sub.board ELSE board
                      newMax == Max2(maxScore, sub.score)
                      newAlpha == Max2(alpha, sub.score)
                  IN  IF alpha <= newAlpha THEN [score |-> newMax, board |-> boardNow]
                      ELSE MaxLoop(boardNow, depth, aiPlayer, opponent, moves, k + 1, newMax, newAlpha, beta)

\* minimax without its scan for a finished four
minimaxNoWinCheck(board, depth, isMaximizing, aiPlayer, opponent, alpha, beta) ==
    IF depth = 0 THEN [score |-> evaluateBoard(board, aiPlayer), board |-> board]
    ELSE LET availableMoves == getAvailableMoves(board)
         IN  IF Len(availableMoves) = 0 THEN [score |-> 0, board |-> board]
             ELSE IF isMaximizing
                  THEN MaxLoop(board, depth, aiPlayer, opponent, availableMoves, 1, -Infinity, alpha, beta)
                  ELSE MinLoop(board, depth, aiPlayer, opponent, availableMoves, 1, Infinity, alpha, beta)

minimax(board, depth, isMaximizing, aiPlayer, opponent, alpha, beta) ==
    IF depth = 0 THEN [score |-> evaluateBoard(board, aiPlayer), board |-> board]
    ELSE LET w == WinScan(board, aiPlayer, opponent, 0)
             availableMoves == getAvailableMoves(board)
         IN  IF w = 1 THEN [score |-> WIN_SCORE + depth, board |-> board]
             ELSE IF w = -1 THEN [score |-> -WIN_SCORE - depth, board |-> board]
             ELSE IF Len(availableMoves) = 0 THEN [score |-> 0, board |-> board]
             ELSE IF isMaximizing
                  THEN MaxLoop(board, depth, aiPlayer, opponent, availableMoves, 1, -Infinity, alpha, beta)
                  ELSE MinLoop(board, depth, aiPlayer, opponent, availableMoves, 1, Infinity, alpha, beta)

MaxLoop(board, depth, aiPlayer, opponent, moves, k, maxScore, alpha, beta) ==
    IF k > Len(moves) THEN [score |-> maxScore, board |-> board]
    ELSE LET col == moves[k]
             testBoard == cloneBoard(board)
             result == dropDiscResult(testBoard, col, aiPlayer)
             after == dropDiscBoard(testBoard, col, aiPlayer)
         IN  IF ~result.success
             THEN MaxLoop(board, depth, aiPlayer, opponent, moves, k + 1, maxScore, alpha, beta)
             ELSE LET sub == minimax(after, depth - 1, FALSE, aiPlayer, opponent, alpha, beta)
                      boardNow == IF cloneShares THEN sub.board ELSE board
                      newMax == Max2(maxScore, sub.score)
                      newAlpha == Max2(alpha, sub.score)
                  IN  IF beta <= newAlpha THEN [score |-> newMax, board |-> boardNow]
                      ELSE MaxLoop(boardNow, depth, aiPlayer, opponent, moves, k + 1, newMax, newAlpha, beta)

MinLoop(board, depth, aiPlayer, opponent, moves, k, minScore, alpha, beta) ==
    IF k > Len(moves) THEN [score |-> minScore, board |-> board]
    ELSE LET col == moves[k]
             testBoard == cloneBoard(board)
             result == dropDiscResult(testBoard, col, opponent)
             after == dropDiscBoard(testBoard, col, opponent)
         IN  IF ~result.success
             THEN MinLoop(board, depth, aiPlayer, opponent, moves, k + 1, minScore, alpha, beta)
             ELSE LET sub == minimax(after, depth - 1, TRUE, aiPlayer, opponent, alpha, beta)
                      boardNow == IF cloneShares THEN sub.board ELSE board
                      newMin == Min2(minScore, sub.score)
                      newBeta == Min2(beta, sub.score)
                  IN  IF newBeta <= alpha THEN [score |-> newMin, board |-> boardNow]
                      ELSE MinLoop(boardNow, depth, aiPlayer, opponent, moves, k + 1, newMin, alpha, newBeta)

\* the loop of getHardMove from index k on, with the running best
RECURSIVE HardLoop(_, _, _, _, _, _, _, _)
\* the loop of getHardMove with >= in place of >: a tie keeps the last column
HardLoopKeepLast(board, moves, aiPlayer, opponent, depth, k, bestScore, bestMove) ==
    IF k > Len(moves) THEN [col |-> bestMove, board |-> board]
    ELSE LET col == moves[k]
             testBoard == cloneBoard(board)
             result == dropDiscResult(testBoard, col, aiPlayer)
             after == dropDiscBoard(testBoard, col, aiPlayer)
         IN  IF ~result.success
             THEN HardLoop(board, moves, aiPlayer, opponent, depth, k + 1, bestScore, bestMove)
             ELSE LET sub == minimax(after, depth - 1, FALSE, aiPlayer, opponent, -Infinity, Infinity)
                      boardNow == IF cloneShares THEN sub.board ELSE board
                  IN  IF sub.score >= bestScore
                      THEN HardLoop(boardNow, moves, aiPlayer, opponent, depth, k + 1, sub.score, col)
                      ELSE HardLoop(boardNow, moves, aiPlayer, opponent, depth, k + 1, bestScore, bestMove)

HardLoop(board, moves, aiPlayer, opponent, depth, k, bestScore, bestMove) ==
    IF k > Len(moves) THEN [col |-> bestMove, board |-> board]
    ELSE LET col == moves[k]
             testBoard == cloneBoard(board)
             result == dropDiscResult(testBoard, col, aiPlayer)
             after == dropDiscBoard(testBoard, col, aiPlayer)
         IN  IF ~result.success
             THEN HardLoop(board, moves, aiPlayer, opponent, depth, k + 1, bestScore, bestMove)
             ELSE LET sub == minimax(after, depth - 1, FALSE, aiPlayer, opponent, -Infinity, Infinity)
                      boardNow == IF cloneShares THEN sub.board ELSE board
                  IN  IF sub.score > bestScore
                      THEN HardLoop(boardNow, moves, aiPlayer, opponent, depth, k + 1, sub.score, col)
                      ELSE HardLoop(boardNow, moves, aiPlayer, opponent, depth, k + 1, bestScore, bestMove)

getHardMove(board, availableMoves, aiPlayer, depth) ==
    HardLoop(board, availableMoves, aiPlayer, Other(aiPlayer), depth, 1, -Infinity, availableMoves[1])

\* getAIMove: its outcomes (the column returned and the caller's board on
\* return), one per value Math.random() may give where the tier draws one
getAIMove(board, difficulty, aiPlayer) ==
    LET availableMoves == getAvailableMoves(board)
    IN  IF Len(availableMoves) = 0 THEN {[col |-> -1, board |-> board]}
        ELSE IF difficulty = "easy"
             THEN {[col |-> c, board |-> board] : c \in getEasyMove(availableMoves)}
        ELSE IF difficulty = "medium" THEN getMediumMove(board, availableMoves, aiPlayer)
        ELSE IF difficulty = "hard"
             THEN {getHardMove(board, availableMoves, aiPlayer, HARD_DEPTH)}
        ELSE {[col |-> c, board |-> board] : c \in getEasyMove(availableMoves)}

(***************************************************************************)
(* Bounds of the model                                                     *)
(***************************************************************************)
\* user inputs (form submits, column clicks, undo clicks) per behaviour
MaxInputs == 3

\* columns a click can name: both edges, the center, and one outside the board
ClickCols == {0, 3, 6, 7}

\* difficulty the new-game form is submitted with
FormDifficulties == {"medium"}

\* values the difficulty selector is changed to
SelectDifficulties == {"easy", "medium"}

(***************************************************************************)
(* app.js: the session state                                               *)
(***************************************************************************)
VARIABLES
    currentBoard,    \* the live board, NullBoard before the first game
    currentPlayer,   \* 1 or 2
    gameMode,        \* "ai" or "human"
    aiDifficulty,    \* "easy", "medium", "hard"
    playerOrder,     \* "player" or "ai"
    isGameActive,
    isAnimating,
    moveHistory,     \* sequence of move objects
    undoStack,       \* sequence of {board, player, moveHistoryLength}
    currentGameId,   \* number of ids generated so far; the current id
    pending,         \* async calls of makeMove / makeAIMove suspended at an await,
                     \* each with the id of the game it was started in
    timers,          \* setTimeout(makeAIMove) callbacks not yet run
    storedGames,     \* the history list kept in localStorage
    lastOp,          \* the handler that ran last, and how it returned
    inputs,          \* user inputs so far
    tb,              \* board handed to the board / AI functions called directly
    tout             \* what the last direct call returned

sessionVars == <<currentBoard, currentPlayer, gameMode, aiDifficulty, playerOrder,
                 isGameActive, isAnimating, moveHistory, undoStack, currentGameId,
                 pending, timers, storedGames, lastOp, inputs>>

vars == <<currentBoard, currentPlayer, gameMode, aiDifficulty, playerOrder,
          isGameActive, isAnimating, moveHistory, undoStack, currentGameId,
          pending, timers, storedGames, lastOp, inputs, tb, tout>>

NoLine == << >>

Op(op, col, outcome, line) == [op |-> op, col |-> col, outcome |-> outcome, line |-> line]

NoCall == [fn |-> "none"]

\* module state of app.js after load (lines 67-79); init() only shows the modal
Init ==
    /\ currentBoard = NullBoard
    /\ currentPlayer = 1
    /\ gameMode = "ai"
    /\ aiDifficulty = "medium"
    /\ playerOrder = "player"
    /\ isGameActive = FALSE
    /\ isAnimating = FALSE
    /\ moveHistory = << >>
    /\ undoStack = << >>
    /\ currentGameId = 0
    /\ pending = {}
    /\ timers = 0
    /\ storedGames = << >>
    /\ lastOp = Op("init", -1, "done", NoLine)
    /\ inputs = 0
    /\ tb = NullBoard
    /\ tout = NoCall

\* existing.slice(-100)
STORE_CAP == 100

LastN(s, n) == IF Len(s) <= n THEN s ELSE [i \in 1 .. n |-> s[Len(s) - n + i]]

\* saveGame with slice(0, 100): the oldest 100 games are kept
saveGameKeepOldest(stored, historyItem) ==
    LET all == Append(stored, historyItem)
    IN  IF Len(all) <= STORE_CAP THEN all ELSE SubSeq(all, 1, STORE_CAP)

\* saveGame: getAllGames, push, slice(-100), setItem
saveGame(stored, historyItem) == LastN(Append(stored, historyItem), STORE_CAP)

\* the record handleGameOver builds from the session state
HistoryItem(moves, board, winner) ==
    [id |-> currentGameId, mode |-> gameMode, difficulty |-> aiDifficulty,
     playerOrder |-> playerOrder, moves |-> moves,
     finalBoard |-> cloneBoard(board), winner |-> winner]

\* createMoveObject (turn, player, column, row)
createMoveObject(turn, player, column, row) ==
    [turn |-> turn, player |-> player, column |-> column, row |-> row]

Checkpoint == [board |-> cloneBoard(currentBoard), player |-> currentPlayer,
               moveHistoryLength |-> Len(moveHistory)]

\* a session driven by a fixed sequence of form submissions and column
\* clicks, long enough to play a game to its end; tout names the sequence
NewGameInput(mode, order) == [kind |-> "new", mode |-> mode, order |-> order, col |-> -1]

ClickInput(col) == [kind |-> "click", mode |-> "", order |-> "", col |-> col]

ClickInputs(cols) == [i \in 1 .. Len(cols) |-> ClickInput(cols[i])]

InputScripts ==
    << \* a game played to Red's win in column 0
       <<NewGameInput("human", "player")>> \o ClickInputs(<<0, 6, 0, 6, 0, 6, 0>>),
       \* a click in column 6, a new game submitted at once, and that game
       \* played to a win in column 0
       <<NewGameInput("human", "player"), ClickInput(6), NewGameInput("human", "player")>>
          \o ClickInputs(<<0, 1, 0, 1, 0, 1, 0>>) >>

\* the user inputs a behaviour may hold
InputLimit == IF tout.fn = "script" THEN Len(InputScripts[tout.id]) ELSE MaxInputs

\* startNewGame giving Red the first turn whatever the form says
HandleNewGameSubmitRedFirst(mode, order, difficulty) ==
    /\ inputs < InputLimit
    /\ inputs' = inputs + 1
    /\ gameMode' = mode
    /\ playerOrder' = order
    /\ aiDifficulty' = difficulty
    /\ currentBoard' = createBoard
    /\ moveHistory' = << >>
    /\ undoStack' = << >>
    /\ currentGameId' = currentGameId + 1
    /\ currentPlayer' = 1
    /\ isGameActive' = TRUE
    /\ timers' = IF order = "ai" /\ mode = "ai" THEN timers + 1 ELSE timers
    /\ lastOp' = Op("newGame", -1, "started", NoLine)
    /\ UNCHANGED <<isAnimating, pending, storedGames, tb, tout>>

\* handleNewGameSubmit + startNewGame
HandleNewGameSubmit(mode, order, difficulty) ==
    /\ inputs < InputLimit
    /\ inputs' = inputs + 1
    /\ gameMode' = mode
    /\ playerOrder' = order
    /\ aiDifficulty' = difficulty
    /\ currentBoard' = createBoard
    /\ moveHistory' = << >>
    /\ undoStack' = << >>
    /\ currentGameId' = currentGameId + 1
    /\ currentPlayer' = IF order = "player" THEN 1 ELSE 2
    /\ isGameActive' = TRUE
    /\ timers' = IF order = "ai" /\ mode = "ai" THEN timers + 1 ELSE timers
    /\ lastOp' = Op("newGame", -1, "started", NoLine)
    /\ UNCHANGED <<isAnimating, pending, storedGames, tb, tout>>

\* the guards of handleColumnClick without the isAnimating test
ClickRejectionNoAnimating(col) ==
    IF ~isGameActive THEN "inactive"
    ELSE IF gameMode = "ai" /\ currentPlayer = 2 THEN "aiTurn"
    ELSE IF isColumnFull(currentBoard, col) THEN "columnFull"
    ELSE "none"

\* the guards of handleColumnClick, in order: why a click returns early
ClickRejection(col) ==
    IF ~isGameActive THEN "inactive"
    ELSE IF isAnimating THEN "animating"
    ELSE IF gameMode = "ai" /\ currentPlayer = 2 THEN "aiTurn"
    ELSE IF isColumnFull(currentBoard, col) THEN "columnFull"
    ELSE "none"

\* handleColumnClick, and makeMove up to its await
HandleColumnClick(col) ==
    /\ inputs < InputLimit
    /\ inputs' = inputs + 1
    /\ IF ClickRejection(col) # "none"
       THEN /\ lastOp' = Op("click", col, ClickRejection(col), NoLine)
            /\ UNCHANGED <<currentBoard, isAnimating, undoStack, pending>>
       ELSE LET player == currentPlayer
                result == dropDiscResult(currentBoard, col, player)
            IN  /\ undoStack' = Append(undoStack, Checkpoint)
                /\ currentBoard' = dropDiscBoard(currentBoard, col, player)
                /\ IF result.success
                   THEN /\ isAnimating' = TRUE
                        /\ pending' = pending \cup
                              {[kind |-> "move", col |-> col, row |-> result.row, player |-> player,
                                game |-> currentGameId]}
                        /\ lastOp' = Op("click", col, "accepted", NoLine)
                   ELSE /\ isAnimating' = FALSE
                        /\ pending' = pending
                        /\ lastOp' = Op("click", col, "dropFailed", NoLine)
    /\ UNCHANGED <<currentPlayer, gameMode, aiDifficulty, playerOrder, isGameActive,
                   moveHistory, currentGameId, timers, storedGames, tb, tout>>

\* the tail with the draw tested before the win
FinishMoveDrawFirst(k, opName, nextPlayer) ==
    LET moves == Append(moveHistory,
                        createMoveObject(Len(moveHistory) + 1, k.player, k.col, k.row))
        winCheck == checkWin(currentBoard, k.row, k.col, k.player)
    IN  /\ moveHistory' = moves
        /\ pending' = pending \ {k}
        /\ isAnimating' = FALSE
        /\ IF isBoardFull(currentBoard)
           THEN /\ isGameActive' = FALSE
                /\ storedGames' = saveGame(storedGames, HistoryItem(moves, currentBoard, 0))
                /\ lastOp' = Op(opName, k.col, "draw", NoLine)
                /\ UNCHANGED <<currentPlayer, timers>>
           ELSE IF winCheck.win
           THEN /\ isGameActive' = FALSE
                /\ storedGames' = saveGame(storedGames, HistoryItem(moves, currentBoard, k.player))
                /\ lastOp' = Op(opName, k.col, "win", winCheck.line)
                /\ UNCHANGED <<currentPlayer, timers>>
           ELSE /\ currentPlayer' = nextPlayer
                /\ timers' = IF opName = "moveDone" /\ gameMode = "ai" /\ nextPlayer = 2
                             THEN timers + 1 ELSE timers
                /\ lastOp' = Op(opName, k.col, "continue", NoLine)
                /\ UNCHANGED <<isGameActive, storedGames>>
        /\ UNCHANGED <<currentBoard, gameMode, aiDifficulty, playerOrder, undoStack,
                       currentGameId, inputs, tb, tout>>

\* the tail shared by makeMove and makeAIMove after the animation wait: push the
\* move object, check for the win, then the draw, else pass the turn.
\* nextPlayer: the value the caller assigns to currentPlayer when the game goes on.
FinishMove(k, opName, nextPlayer) ==
    LET moves == Append(moveHistory,
                        createMoveObject(Len(moveHistory) + 1, k.player, k.col, k.row))
        winCheck == checkWin(currentBoard, k.row, k.col, k.player)
    IN  /\ moveHistory' = moves
        /\ pending' = pending \ {k}
        /\ isAnimating' = FALSE
        /\ IF winCheck.win
           THEN \* handleGameOver(player, winCheck.line)
                /\ isGameActive' = FALSE
                /\ storedGames' = saveGame(storedGames, HistoryItem(moves, currentBoard, k.player))
                /\ lastOp' = Op(opName, k.col, "win", winCheck.line)
                /\ UNCHANGED <<currentPlayer, timers>>
           ELSE IF isBoardFull(currentBoard)
           THEN \* handleGameOver(null, [])
                /\ isGameActive' = FALSE
                /\ storedGames' = saveGame(storedGames, HistoryItem(moves, currentBoard, 0))
                /\ lastOp' = Op(opName, k.col, "draw", NoLine)
                /\ UNCHANGED <<currentPlayer, timers>>
           ELSE /\ currentPlayer' = nextPlayer
                /\ timers' = IF opName = "moveDone" /\ gameMode = "ai" /\ nextPlayer = 2
                             THEN timers + 1 ELSE timers
                /\ lastOp' = Op(opName, k.col, "continue", NoLine)
                /\ UNCHANGED <<isGameActive, storedGames>>
        /\ UNCHANGED <<currentBoard, gameMode, aiDifficulty, playerOrder, undoStack,
                       currentGameId, inputs, tb, tout>>

\* makeMove from its await (the 600 ms animation wait) to its end
ResumeMove ==
    \E k \in pending :
        /\ k.kind = "move"
        /\ FinishMove(k, "moveDone", IF currentPlayer = 1 THEN 2 ELSE 1)

\* a setTimeout(makeAIMove) callback runs: makeAIMove up to its first await
TimerFires ==
    /\ timers > 0
    /\ timers' = timers - 1
    /\ IF ~isGameActive \/ isAnimating \/ currentPlayer # 2
       THEN /\ lastOp' = Op("aiTimer", -1, "ignored", NoLine)
            /\ UNCHANGED <<isAnimating, pending>>
       ELSE /\ isAnimating' = TRUE
            /\ pending' = pending \cup
                  {[kind |-> "aiThink", col |-> -1, row |-> -1, player |-> 2,
                    game |-> currentGameId]}
            /\ lastOp' = Op("aiTimer", -1, "thinking", NoLine)
    /\ UNCHANGED <<currentBoard, currentPlayer, gameMode, aiDifficulty, playerOrder,
                   isGameActive, moveHistory, undoStack, currentGameId, storedGames,
                   inputs, tb, tout>>

\* makeAIMove from the thinking delay to the animation wait
ResumeAIThink ==
    \E k \in pending :
        /\ k.kind = "aiThink"
        /\ \E ai \in getAIMove(currentBoard, aiDifficulty, 2) :
           LET aiCol == ai.col
               board == ai.board
               result == dropDiscResult(board, aiCol, 2)
           IN  IF aiCol = -1 \/ isColumnFull(board, aiCol)
               THEN /\ isAnimating' = FALSE
                    /\ pending' = pending \ {k}
                    /\ currentBoard' = board
                    /\ lastOp' = Op("aiThought", aiCol, "invalid", NoLine)
                    /\ UNCHANGED undoStack
               ELSE /\ undoStack' = Append(undoStack,
                            [board |-> cloneBoard(board), player |-> currentPlayer,
                             moveHistoryLength |-> Len(moveHistory)])
                    /\ currentBoard' = dropDiscBoard(board, aiCol, 2)
                    /\ IF result.success
                       THEN /\ isAnimating' = TRUE
                            /\ pending' = (pending \ {k}) \cup
                                  {[kind |-> "aiAnim", col |-> aiCol, row |-> result.row, player |-> 2,
                                    game |-> k.game]}
                            /\ lastOp' = Op("aiThought", aiCol, "dropped", NoLine)
                       ELSE /\ isAnimating' = FALSE
                            /\ pending' = pending \ {k}
                            /\ lastOp' = Op("aiThought", aiCol, "dropFailed", NoLine)
        /\ UNCHANGED <<currentPlayer, gameMode, aiDifficulty, playerOrder, isGameActive,
                       moveHistory, currentGameId, timers, storedGames, inputs, tb, tout>>

\* makeAIMove from the animation wait to its end
ResumeAIAnim ==
    \E k \in pending :
        /\ k.kind = "aiAnim"
        /\ FinishMove(k, "aiDone", 1)

\* the guard of handleUndo without the isGameActive test
UndoRejectedGameOver == isAnimating \/ Len(undoStack) = 0

\* the guard of handleUndo with isGameActive in place of !isGameActive
UndoRejectedInverted == isGameActive \/ isAnimating \/ Len(undoStack) = 0

\* the guard of handleUndo
UndoRejected == ~isGameActive \/ isAnimating \/ Len(undoStack) = 0

\* handleUndo without the assignment to currentPlayer
HandleUndoKeepPlayer ==
    /\ inputs < InputLimit
    /\ inputs' = inputs + 1
    /\ IF UndoRejected
       THEN /\ lastOp' = Op("undo", -1, "rejected", NoLine)
            /\ UNCHANGED <<currentBoard, moveHistory, undoStack>>
       ELSE LET lastState == undoStack[Len(undoStack)]
            IN  /\ undoStack' = SubSeq(undoStack, 1, Len(undoStack) - 1)
                /\ currentBoard' = lastState.board
                /\ moveHistory' = SubSeq(moveHistory, 1, Min2(lastState.moveHistoryLength, Len(moveHistory)))
                /\ lastOp' = Op("undo", -1, "undone", NoLine)
    /\ UNCHANGED <<currentPlayer, gameMode, aiDifficulty, playerOrder, isGameActive,
                   isAnimating, currentGameId, pending, timers, storedGames, tb, tout>>

HandleUndo ==
    /\ inputs < InputLimit
    /\ inputs' = inputs + 1
    /\ IF UndoRejected
       THEN /\ lastOp' = Op("undo", -1, "rejected", NoLine)
            /\ UNCHANGED <<currentBoard, currentPlayer, moveHistory, undoStack>>
       ELSE LET lastState == undoStack[Len(undoStack)]
            IN  /\ undoStack' = SubSeq(undoStack, 1, Len(undoStack) - 1)
                /\ currentBoard' = lastState.board
                /\ currentPlayer' = lastState.player
                /\ moveHistory' = SubSeq(moveHistory, 1, Min2(lastState.moveHistoryLength, Len(moveHistory)))
                /\ lastOp' = Op("undo", -1, "undone", NoLine)
    /\ UNCHANGED <<gameMode, aiDifficulty, playerOrder, isGameActive, isAnimating,
                   currentGameId, pending, timers, storedGames, tb, tout>>

\* the change handler of the difficulty selector (app.js 147-151)
HandleDifficultyChange(difficulty) ==
    /\ inputs < InputLimit
    /\ inputs' = inputs + 1
    /\ difficulty # aiDifficulty
    /\ aiDifficulty' = difficulty
    /\ lastOp' = Op("difficulty", -1, "set", NoLine)
    /\ UNCHANGED <<currentBoard, currentPlayer, gameMode, playerOrder, isGameActive,
                   isAnimating, moveHistory, undoStack, currentGameId, pending, timers,
                   storedGames, tb, tout>>

Next ==
    \/ \E mode \in {"ai", "human"}, order \in {"player", "ai"}, d \in FormDifficulties :
          HandleNewGameSubmit(mode, order, d)
    \/ \E d \in SelectDifficulties : HandleDifficultyChange(d)
    \/ \E col \in ClickCols : HandleColumnClick(col)
    \/ ResumeMove
    \/ TimerFires
    \/ ResumeAIThink
    \/ ResumeAIAnim
    \/ HandleUndo

Spec == Init /\ [][Next]_vars

(***************************************************************************)
(* Games in progress: the session after the first n moves of a scripted    *)
(* game have been accepted and have finished (no move in flight; the AI's  *)
(* timer scheduled if the human moved last). The scripts are legal games:  *)
(* columns in move order, the sides alternating from the side that starts. *)
(* In human-vs-AI games the AI's columns are columns the easy tier can     *)
(* draw; the difficulty selector was changed after the last move.          *)
(***************************************************************************)
\* 42 moves, Red first, no four in a row at any point: a draw
ScriptDraw == <<2, 5, 2, 1, 1, 0, 0, 5, 3, 6, 2, 2, 6, 4, 1, 5, 1, 1, 1, 0, 6,
                6, 4, 4, 2, 4, 2, 4, 4, 0, 5, 3, 6, 0, 5, 6, 5, 3, 3, 3, 0, 3>>

\* 42 moves, Red first: the 42nd disc (Yellow) fills the board and completes
\* four in a row
ScriptLastWin == <<0, 6, 1, 6, 5, 4, 5, 2, 6, 3, 1, 1, 4, 4, 6, 5, 6, 2, 0, 6, 2,
                   2, 5, 1, 2, 3, 5, 0, 4, 4, 5, 4, 1, 1, 3, 2, 0, 0, 0, 3, 3, 3>>

\* both sides one disc short of a vertical four
ScriptRace == <<0, 6, 0, 6, 0, 6>>

\* Red with three in the bottom row, open at both ends
ScriptOpenThree == <<1, 1, 2, 2, 3, 3>>

\* the center column filled, the sides alternating
ScriptCenter == <<3, 3, 3, 3, 3, 3>>

\* one accepted move that has finished and did not end the game (makeMove /
\* makeAIMove): s is the session's board, side to move, move log and undo stack
PlayMove(s, col) ==
    [board |-> dropDiscBoard(s.board, col, s.player),
     player |-> Other(s.player),
     moves |-> Append(s.moves,
                  createMoveObject(Len(s.moves) + 1, s.player, col,
                                   getLowestEmptyRow(s.board, col))),
     undo |-> Append(s.undo, [board |-> cloneBoard(s.board), player |-> s.player,
                              moveHistoryLength |-> Len(s.moves)])]

RECURSIVE ReplayFrom(_, _, _, _)
ReplayFrom(script, k, n, s) ==
    IF k > n THEN s
    ELSE LET next == PlayMove(s, script[k])
         IN  IF next.player = s.player THEN s
             ELSE ReplayFrom(script, k + 1, n, next)

\* the session after the first n moves of script, started by side first
Replay(script, n, first) ==
    ReplayFrom(script, 1, n,
               [board |-> createBoard, player |-> first, moves |-> << >>, undo |-> << >>])

\* moves still to play in the scripted endgames
MaxEmpty == 2

FullCount == ROWS * COLS

MidGames ==
    {[script |-> ScriptDraw, n |-> FullCount - MaxEmpty, mode |-> "human", difficulty |-> "medium"],
     [script |-> ScriptDraw, n |-> FullCount - MaxEmpty, mode |-> "ai", difficulty |-> "hard"],
     [script |-> ScriptLastWin, n |-> FullCount - MaxEmpty, mode |-> "human", difficulty |-> "medium"],
     [script |-> ScriptLastWin, n |-> FullCount - MaxEmpty, mode |-> "ai", difficulty |-> "hard"],
     [script |-> ScriptRace, n |-> Len(ScriptRace), mode |-> "human", difficulty |-> "medium"],
     [script |-> ScriptRace, n |-> Len(ScriptRace), mode |-> "ai", difficulty |-> "medium"]}

\* a game of an earlier page load as getAllGames reads it back: Red's win in
\* column 0 after 7 moves
PastGame(i) ==
    LET s == Replay(Append(ScriptRace, 0), Len(ScriptRace) + 1, 1)
    IN  [id |-> i - 1000, mode |-> "human", difficulty |-> "medium", playerOrder |-> "player",
         moves |-> s.moves, finalBoard |-> s.board, winner |-> 1]

\* the history localStorage holds at page load after n games of earlier loads
PastGames(n) == [i \in 1 .. n |-> PastGame(i)]

\* a game in progress, with the given history in localStorage
InitMidWith(stored) ==
    \E g \in MidGames :
        LET s == Replay(g.script, g.n, 1)
        IN  /\ currentBoard = s.board
            /\ currentPlayer = s.player
            /\ gameMode = g.mode
            /\ aiDifficulty = g.difficulty
            /\ playerOrder = "player"
            /\ isGameActive = TRUE
            /\ isAnimating = FALSE
            /\ moveHistory = s.moves
            /\ undoStack = s.undo
            /\ currentGameId = 1
            /\ pending = {}
            /\ timers = IF g.mode = "ai" /\ s.player = 2 THEN 1 ELSE 0
            /\ storedGames = stored
            /\ lastOp = Op(IF g.mode = "ai" /\ s.player = 1 THEN "aiDone" ELSE "moveDone",
                           g.script[g.n], "continue", NoLine)
            /\ inputs = 0
            /\ tb = NullBoard
            /\ tout = NoCall

InitMid == InitMidWith(<< >>)

\* games in progress with the history one short of its cap, and at its cap
InitHistory == \E n \in {STORE_CAP - 1, STORE_CAP} : InitMidWith(PastGames(n))

SpecHistory == InitHistory /\ [][Next]_vars

SpecMid == InitMid /\ [][Next]_vars

\* the session from page load and from the games in progress
SpecGame == (Init \/ InitMid) /\ [][Next]_vars

\* a makeAIMove call is suspended at its thinking delay
AIThinking == \E k \in pending : k.kind = "aiThink"

\* the same, with the event loop running every timer callback that is due and
\* resuming every call suspended at an await. The thinking delay always ends:
\* its resumption is enabled exactly when a call is suspended there, and the
\* last conjunct is weak fairness of ResumeAIThink written with that condition
SpecGameFair ==
    /\ SpecGame
    /\ WF_vars(TimerFires)
    /\ WF_vars(ResumeMove)
    /\ WF_vars(ResumeAIAnim)
    /\ ([]<>(~AIThinking) \/ []<><<ResumeAIThink>>_vars)

(***************************************************************************)
(* Direct calls of the board and AI functions (as the unit tests make      *)
(* them): tb is the board the caller holds, tout the last call's result.   *)
(***************************************************************************)
\* discs a board built by direct drops from createBoard may hold
MaxDiscs == 2

\* empty cells of the scripted boards the direct calls start from
MaxHoles == 3

\* columns handed to dropDisc: every column, and one beyond each edge
DropCols == -1 .. COLS

\* difficulties handed to getAIMove: the three tiers and one other value
CallDifficulties == {"easy", "medium", "hard", "expert"}

\* search depths handed to getHardMove (getAIMove leaves it at its default)
CallDepths == {1, 2, 3}

DiscCount(board) == Cardinality({rc \in RowIdx \X ColIdx : board[rc[1]][rc[2]] # 0})

HoleCount(board) == ROWS * COLS - DiscCount(board)

\* the boards the direct calls drop on: few discs, or few empty cells
Explored(board) == DiscCount(board) < MaxDiscs \/ HoleCount(board) <= MaxHoles

StartBoards ==
    {createBoard}
    \cup {Replay(ScriptDraw, FullCount - MaxHoles, 1).board,
          Replay(ScriptLastWin, FullCount - MaxHoles, 1).board,
          Replay(ScriptCenter, Len(ScriptCenter), 1).board,
          Replay(ScriptRace, Len(ScriptRace) - 1, 1).board,
          Replay(ScriptRace, Len(ScriptRace), 1).board,
          Replay(ScriptOpenThree, Len(ScriptOpenThree), 1).board}

sessionAtLoad ==
    /\ currentBoard = NullBoard
    /\ currentPlayer = 1
    /\ gameMode = "ai"
    /\ aiDifficulty = "medium"
    /\ playerOrder = "player"
    /\ isGameActive = FALSE
    /\ isAnimating = FALSE
    /\ moveHistory = << >>
    /\ undoStack = << >>
    /\ currentGameId = 0
    /\ pending = {}
    /\ timers = 0
    /\ storedGames = << >>
    /\ lastOp = Op("init", -1, "done", NoLine)
    /\ inputs = 0

InitBoard ==
    /\ sessionAtLoad
    /\ tb \in StartBoards
    /\ tout = NoCall

\* dropDisc(tb, col, player)
CallDropDisc(col, player) ==
    /\ Explored(tb) \/ ~dropDiscResult(tb, col, player).success
    /\ tb' = dropDiscBoard(tb, col, player)
    /\ tout' = [fn |-> "dropDisc", col |-> col, player |-> player,
                ret |-> dropDiscResult(tb, col, player)]
    /\ UNCHANGED sessionVars

\* getAIMove(tb, difficulty, aiPlayer), called on a board as it was built (the
\* start board, or after a drop that landed); the hard tier only on the boards
\* with few empty cells
CallGetAIMove(difficulty, aiPlayer) ==
    /\ tout.fn = "none" \/ (tout.fn = "dropDisc" /\ tout.ret.success)
    /\ difficulty = "hard" => HoleCount(tb) <= MaxHoles
    /\ \E ai \in getAIMove(tb, difficulty, aiPlayer) :
          /\ tb' = ai.board
          /\ tout' = [fn |-> "getAIMove", difficulty |-> difficulty, player |-> aiPlayer,
                      ret |-> ai.col]
    /\ UNCHANGED sessionVars

\* getHardMove(tb, getAvailableMoves(tb), aiPlayer, depth), called on a start
\* board or on a board with few empty cells that has a column to play
CallGetHardMove(depth, aiPlayer) ==
    /\ \/ tout = NoCall
       \/ tout.fn = "dropDisc" /\ tout.ret.success /\ HoleCount(tb) <= MaxHoles
    /\ Len(getAvailableMoves(tb)) > 0
    /\ LET hard == getHardMove(tb, getAvailableMoves(tb), aiPlayer, depth)
       IN  /\ tb' = hard.board
           /\ tout' = [fn |-> "getHardMove", depth |-> depth, player |-> aiPlayer,
                       ret |-> hard.col]
    /\ UNCHANGED sessionVars

\* the cells written directly on a clone, and the values written
WriteCells == {<<0, 0>>, <<2, 6>>, <<ROWS - 1, 3>>}

WriteValues == {0, 1, 2}

\* cloned = cloneBoard(tb), on a start board or a board of few discs; the
\* clone is kept in tout.ret
CallCloneBoard ==
    /\ \/ tout = NoCall
       \/ tout.fn = "dropDisc" /\ tout.ret.success /\ DiscCount(tb) < MaxDiscs
    /\ tb' = tb
    /\ tout' = [fn |-> "cloneBoard", ret |-> cloneBoard(tb)]
    /\ UNCHANGED sessionVars

\* cloned[row][col] = value, right after the clone was made
WriteCloneCell(row, col, value) ==
    /\ tout.fn = "cloneBoard"
    /\ tout' = [fn |-> "cloneWrite", ret |-> SetCell(tout.ret, row, col, value)]
    /\ tb' = IF cloneShares THEN SetCell(tb, row, col, value) ELSE tb
    /\ UNCHANGED sessionVars

\* dropDisc(cloned, col, player), right after the clone was made
DropOnClone(col, player) ==
    /\ tout.fn = "cloneBoard"
    /\ tout' = [fn |-> "cloneWrite", ret |-> dropDiscBoard(tout.ret, col, player)]
    /\ tb' = IF cloneShares THEN dropDiscBoard(tb, col, player) ELSE tb
    /\ UNCHANGED sessionVars

\* dropDisc(tb, col, player) on the source, the clone still held
DropOnSource(col, player) ==
    /\ tout.fn = "cloneBoard"
    /\ tb' = dropDiscBoard(tb, col, player)
    /\ tout' = [fn |-> "sourceWrite",
                ret |-> IF cloneShares THEN dropDiscBoard(tout.ret, col, player) ELSE tout.ret]
    /\ UNCHANGED sessionVars

\* isColumnFull(tb, col), called on a board as it was built
CallIsColumnFull(col) ==
    /\ tout.fn = "none" \/ (tout.fn = "dropDisc" /\ tout.ret.success)
    /\ tb' = tb
    /\ tout' = [fn |-> "isColumnFull", col |-> col, ret |-> isColumnFull(tb, col)]
    /\ UNCHANGED sessionVars

\* getAvailableMoves(tb), called on a board as it was built
CallGetAvailableMoves ==
    /\ tout.fn = "none" \/ (tout.fn = "dropDisc" /\ tout.ret.success)
    /\ tb' = tb
    /\ tout' = [fn |-> "getAvailableMoves", ret |-> getAvailableMoves(tb)]
    /\ UNCHANGED sessionVars

\* evaluateBoard(tb, player), called on a board as it was built
CallEvaluateBoard(player) ==
    /\ tout.fn = "none" \/ (tout.fn = "dropDisc" /\ tout.ret.success)
    /\ tb' = tb
    /\ tout' = [fn |-> "evaluateBoard", player |-> player, ret |-> evaluateBoard(tb, player)]
    /\ UNCHANGED sessionVars

\* the depths left that minimax is called with directly
MinimaxDepths == {0, 1, 2}

\* minimax(tb, depth, isMaximizing, aiPlayer, opponent, -Infinity, Infinity),
\* called on a start board or on a board with few empty cells
CallMinimax(depth, isMaximizing, aiPlayer) ==
    /\ \/ tout = NoCall
       \/ tout.fn = "dropDisc" /\ tout.ret.success /\ HoleCount(tb) <= MaxHoles
    /\ LET mm == minimax(tb, depth, isMaximizing, aiPlayer, Other(aiPlayer), -Infinity, Infinity)
       IN  /\ tb' = mm.board
           /\ tout' = [fn |-> "minimax", depth |-> depth, isMaximizing |-> isMaximizing,
                       player |-> aiPlayer, ret |-> mm.score]
    /\ UNCHANGED sessionVars

NextBoard ==
    \/ \E col \in DropCols, player \in {1, 2} : CallDropDisc(col, player)
    \/ \E d \in CallDifficulties, player \in {1, 2} : CallGetAIMove(d, player)
    \/ \E depth \in CallDepths, player \in {1, 2} : CallGetHardMove(depth, player)
    \/ \E depth \in MinimaxDepths, isMaximizing \in BOOLEAN, player \in {1, 2} :
          CallMinimax(depth, isMaximizing, player)
    \/ \E player \in {1, 2} : CallEvaluateBoard(player)
    \/ \E col \in DropCols : CallIsColumnFull(col)
    \/ CallGetAvailableMoves
    \/ CallCloneBoard
    \/ \E rc \in WriteCells, value \in WriteValues : WriteCloneCell(rc[1], rc[2], value)
    \/ \E col \in DropCols, player \in {1, 2} : DropOnClone(col, player)
    \/ \E col \in DropCols, player \in {1, 2} : DropOnSource(col, player)

SpecBoard == InitBoard /\ [][NextBoard]_vars

\* the session and the direct calls of dropDisc / getAIMove side by side: a
\* behaviour is a session (tb unused) or a sequence of direct calls
NextAll ==
    \/ tb = NullBoard /\ Next
    \/ tb # NullBoard /\ NextBoard

SpecAll == (Init \/ InitMid \/ InitBoard) /\ [][NextAll]_vars

\* the next input of the sequence
ScriptedInput == InputScripts[tout.id][inputs + 1]

InitScript ==
    /\ sessionAtLoad
    /\ tb = NullBoard
    /\ tout \in {[fn |-> "script", id |-> i] : i \in 1 .. Len(InputScripts)}

NextScript ==
    \/ /\ inputs < InputLimit /\ ScriptedInput.kind = "new"
       /\ HandleNewGameSubmit(ScriptedInput.mode, ScriptedInput.order, aiDifficulty)
    \/ /\ inputs < InputLimit /\ ScriptedInput.kind = "click"
       /\ HandleColumnClick(ScriptedInput.col)
    \/ ResumeMove

SpecScript == InitScript /\ [][NextScript]_vars

(***************************************************************************)
(* Direct calls of checkWin on grids written cell by cell (as the unit     *)
(* tests of checkWin do): every maximal row, column and diagonal of the    *)
(* board, filled with every pattern of Red and Yellow, the rest empty; and *)
(* the full boards of the scripted games.                                  *)
(***************************************************************************)
Lines ==
    {[r0 |-> r, c0 |-> 0, dr |-> 0, dc |-> 1, len |-> COLS] : r \in RowIdx}
    \cup {[r0 |-> 0, c0 |-> c, dr |-> 1, dc |-> 0, len |-> ROWS] : c \in ColIdx}
    \cup {[r0 |-> 0, c0 |-> c, dr |-> 1, dc |-> 1, len |-> Min2(ROWS, COLS - c)] : c \in ColIdx}
    \cup {[r0 |-> r, c0 |-> 0, dr |-> 1, dc |-> 1, len |-> Min2(ROWS - r, COLS)] : r \in 1 .. (ROWS - 1)}
    \cup {[r0 |-> 0, c0 |-> c, dr |-> 1, dc |-> -1, len |-> Min2(ROWS, c + 1)] : c \in ColIdx}
    \cup {[r0 |-> r, c0 |-> COLS - 1, dr |-> 1, dc |-> -1, len |-> Min2(ROWS - r, COLS)] : r \in 1 .. (ROWS - 1)}

LineBoard(l, pat) ==
    [r \in RowIdx |-> [c \in ColIdx |->
        IF \E i \in 0 .. (l.len - 1) : r = l.r0 + i * l.dr /\ c = l.c0 + i * l.dc
        THEN pat[CHOOSE i \in 0 .. (l.len - 1) : r = l.r0 + i * l.dr /\ c = l.c0 + i * l.dc]
        ELSE 0]]

\* whether cell (r, c) lies on the line l
OnLine(l, r, c) == \E i \in 0 .. (l.len - 1) : r = l.r0 + i * l.dr /\ c = l.c0 + i * l.dc

\* two lines filled with one side, the rest empty
CrossBoard(l1, l2, side) ==
    [r \in RowIdx |-> [c \in ColIdx |->
        IF OnLine(l1, r, c) \/ OnLine(l2, r, c) THEN side ELSE 0]]

GridBoards ==
    UNION {{LineBoard(l, pat) : pat \in [0 .. (l.len - 1) -> {1, 2}]} : l \in Lines}
    \cup {CrossBoard(l1, l2, side) : l1 \in Lines, l2 \in Lines, side \in {1, 2}}
    \cup {Replay(ScriptDraw, FullCount, 1).board, Replay(ScriptLastWin, FullCount, 1).board}

InitGrid ==
    /\ sessionAtLoad
    /\ tb \in GridBoards
    /\ tout = NoCall

\* checkWin(tb, row, col, player)
CallCheckWin(row, col, player) ==
    /\ tout = NoCall
    /\ tout' = [fn |-> "checkWin", row |-> row, col |-> col, player |-> player,
                ret |-> checkWin(tb, row, col, player)]
    /\ UNCHANGED <<tb, sessionVars>>

NextGrid ==
    \E row \in RowIdx, col \in ColIdx, player \in {1, 2} : CallCheckWin(row, col, player)

SpecGrid == InitGrid /\ [][NextGrid]_vars

(***************************************************************************)
(* Properties                                                              *)
(***************************************************************************)
\* no empty cell below an occupied cell, in any column
NoFloating(board) ==
    \A c \in ColIdx : \A r \in 0 .. (ROWS - 2) : board[r][c] # 0 => board[r + 1][c] # 0

\* col has no empty cell, or is no column of the board
ColumnBlocked(board, col) == col \notin ColIdx \/ \A r \in RowIdx : board[r][col] # 0

AllOccupied(board) == \A r \in RowIdx, c \in ColIdx : board[r][c] # 0

FourAxes == {<<0, 1>>, <<1, 0>>, <<1, 1>>, <<1, -1>>}

\* four consecutive cells of side along one axis, (r, c) among them
HasFour(board, r, c, side) ==
    \E d \in FourAxes, k \in 0 .. (WIN_LENGTH - 1) :
        \A i \in 0 .. (WIN_LENGTH - 1) :
            LET rr == r + (i - k) * d[1]
                cc == c + (i - k) * d[2]
            IN  InBoard(rr, cc) /\ board[rr][cc] = side

\* C1: no floating tokens. The board a sequence of dropDisc calls builds from
\* createBoard, and the live session board after any sequence of new games,
\* human moves, AI moves and undos, has no empty cell below an occupied cell.
C1_NoFloatingTokens ==
    /\ currentBoard # NullBoard => NoFloating(currentBoard)
    /\ tb # NullBoard => NoFloating(tb)

\* C1 witness: an undo has restored a live board that holds a stack of discs
C1_Witness_UndoneStack ==
    /\ lastOp.op = "undo" /\ lastOp.outcome = "undone"
    /\ \E c \in ColIdx : currentBoard[ROWS - 2][c] # 0

\* C2: checkWin called on a cell that holds the side reports a win exactly
\* when four consecutive cells of that side along the horizontal, the
\* vertical or a diagonal include the cell.
C2_CheckWinExactOnOwnedCell ==
    (tout.fn = "checkWin" /\ tb[tout.row][tout.col] = tout.player)
        => (tout.ret.win <=> HasFour(tb, tout.row, tout.col, tout.player))

\* C2 witness: a win reported from a cell in the middle of the winning line
C2_Witness_WinFromMiddle ==
    /\ tout.fn = "checkWin" /\ tout.ret.win
    /\ tb[tout.row][tout.col] = tout.player
    /\ tout.ret.line[1] # <<tout.row, tout.col>>
    /\ tout.ret.line[WIN_LENGTH] # <<tout.row, tout.col>>

\* C3: a dropDisc call that succeeds returns the row getLowestEmptyRow gave
\* for the board before the call, sets the cell (row, col) to player and
\* leaves every other cell as it was.
C3_DropDiscSetsOneCell ==
    [][(tout'.fn = "dropDisc" /\ tout'.ret.success)
        => /\ tout'.ret.row = getLowestEmptyRow(tb, tout'.col)
           /\ tout'.ret.row \in RowIdx
           /\ tout'.col \in ColIdx
           /\ \A r \in RowIdx, c \in ColIdx :
                 tb'[r][c] = IF r = tout'.ret.row /\ c = tout'.col
                             THEN tout'.player ELSE tb[r][c]]_vars

\* C3 witness: a drop that landed on top of another disc
C3_Witness_LandedOnDisc ==
    /\ tout.fn = "dropDisc" /\ tout.ret.success
    /\ tout.ret.row < ROWS - 1
    /\ tb[tout.ret.row][tout.col] = tout.player

\* C4: a dropDisc call on a full column, or on a column index outside 0..6,
\* returns success false with row -1 and leaves every cell as it was.
C4_DropDiscFailureKeepsBoard ==
    [][(tout'.fn = "dropDisc" /\ ColumnBlocked(tb, tout'.col))
        => /\ tout'.ret = [success |-> FALSE, row |-> -1]
           /\ tb' = tb]_vars

\* C4 witness: a drop on a full column of the board has failed
C4_Witness_FullColumnDrop ==
    /\ tout.fn = "dropDisc" /\ ~tout.ret.success
    /\ tout.col \in ColIdx
    /\ \A r \in RowIdx : tb[r][tout.col] # 0

C7_RejectedClickChangesNothing ==
    [][(/\ lastOp'.op = "click"
        /\ inputs' = inputs + 1
        /\ \/ ~isGameActive
           \/ gameMode = "ai" /\ currentPlayer = 2
           \/ ColumnBlocked(currentBoard, lastOp'.col))
        => UNCHANGED <<currentBoard, currentPlayer, moveHistory, undoStack>>]_vars

\* C7 witness: a click on a full column of a game in progress was rejected
C7_Witness_FullColumnClick ==
    /\ lastOp.op = "click" /\ lastOp.outcome = "columnFull"
    /\ lastOp.col \in ColIdx
    /\ isGameActive

\* C8: when a move (human or AI) finishes and its disc completes four in a
\* row for the moving side through its landing cell, the game is over, the
\* record saved names that side as the winner, and the side to move is not
\* flipped.
C8_WinEndsGame ==
    [][(Len(moveHistory') = Len(moveHistory) + 1)
        => LET m == moveHistory'[Len(moveHistory')]
           IN  HasFour(currentBoard, m.row, m.column, m.player)
               => /\ ~isGameActive'
                  /\ currentPlayer' = currentPlayer
                  /\ Len(storedGames') = Len(storedGames) + 1
                  /\ storedGames'[Len(storedGames')].winner = m.player]_vars

\* C8 witness: the AI's move has won the game
C8_Witness_AIWins ==
    /\ lastOp.op = "aiDone" /\ lastOp.outcome = "win"
    /\ ~isGameActive
    /\ currentPlayer = 2

\* C9: when a move finishes with all 42 cells occupied and its disc completes
\* no four in a row, the game is over and the record saved has no winner; and
\* a record without a winner is saved only when no cell of the live board is
\* empty.
C9_DrawOnlyOnFullBoard ==
    [][/\ (Len(moveHistory') = Len(moveHistory) + 1)
          => LET m == moveHistory'[Len(moveHistory')]
             IN  (/\ AllOccupied(currentBoard)
                  /\ currentBoard[m.row][m.column] = m.player
                  /\ ~HasFour(currentBoard, m.row, m.column, m.player))
                 => /\ ~isGameActive'
                    /\ Len(storedGames') = Len(storedGames) + 1
                    /\ storedGames'[Len(storedGames')].winner = 0
       /\ (/\ Len(storedGames') = Len(storedGames) + 1
           /\ storedGames'[Len(storedGames')].winner = 0)
          => AllOccupied(currentBoard')]_vars

\* C9 witness: a game has ended in a draw
C9_Witness_Draw ==
    /\ lastOp.outcome = "draw"
    /\ ~isGameActive
    /\ Len(moveHistory) = ROWS * COLS

\* a game was started and has ended
Terminal == ~isGameActive /\ currentGameId > 0

\* C10: once a game has ended, no step other than the start of a new game
\* (no column click, no AI timer, no undo) changes the live board, the side to
\* move or the move log, and no further game record is saved.
C10_TerminalIsAbsorbing ==
    [][(Terminal /\ currentGameId' = currentGameId)
        => UNCHANGED <<currentBoard, currentPlayer, moveHistory, storedGames>>]_vars

\* C10 witness: a timer scheduled during the game has fired after its end
C10_Witness_TimerAfterEnd ==
    /\ Terminal
    /\ lastOp.op = "aiTimer" /\ lastOp.outcome = "ignored"
    /\ Len(storedGames) = 1

\* the side startNewGame gives the first turn
StartingSide == IF playerOrder = "player" THEN 1 ELSE 2

LogAlternates(log) == \A i \in 1 .. (Len(log) - 1) : log[i].player # log[i + 1].player

\* C11: sides alternate. After every step the consecutive entries of the move
\* log belong to opposite sides and the first entry belongs to the starting
\* side; and when a move finishes without ending the game, the side to move
\* is the opposite of the side that moved.
C11_SidesAlternate ==
    [][/\ LogAlternates(moveHistory')
       /\ Len(moveHistory') > 0 => moveHistory'[1].player = StartingSide'
       /\ (Len(moveHistory') = Len(moveHistory) + 1 /\ isGameActive')
          => currentPlayer' = Other(moveHistory'[Len(moveHistory')].player)]_vars

\* C12: undo is the inverse of a move. (1) The checkpoint a move pushes when
\* it is accepted holds the live board, the side to move and the length of
\* the move log as they are before the move, and leaves the checkpoints below
\* it alone; (2) while a checkpoint stays on the stack, the entries of the
\* move log up to its length stay as they are; (3) an undo pops the top
\* checkpoint and sets the live board and the side to move to its values and
\* the move log to its first entries up to the checkpoint's length. So an
\* undo restores the state before the last move, and k undos the state
\* before the last k moves.
C12_UndoInvertsMove ==
    [][/\ Len(undoStack') = Len(undoStack) + 1
          => /\ undoStack'[Len(undoStack')] =
                    [board |-> currentBoard, player |-> currentPlayer,
                     moveHistoryLength |-> Len(moveHistory)]
             /\ SubSeq(undoStack', 1, Len(undoStack)) = undoStack
       /\ \A i \in 1 .. Min2(Len(undoStack), Len(undoStack')) :
             /\ undoStack'[i] = undoStack[i]
             /\ undoStack[i].moveHistoryLength <= Len(moveHistory)
             /\ undoStack[i].moveHistoryLength <= Len(moveHistory')
             /\ SubSeq(moveHistory', 1, undoStack[i].moveHistoryLength)
                    = SubSeq(moveHistory, 1, undoStack[i].moveHistoryLength)
       /\ (lastOp'.op = "undo" /\ inputs' = inputs + 1
               /\ isGameActive /\ ~isAnimating /\ Len(undoStack) > 0)
          => LET top == undoStack[Len(undoStack)]
             IN  /\ undoStack' = SubSeq(undoStack, 1, Len(undoStack) - 1)
                 /\ currentBoard' = top.board
                 /\ currentPlayer' = top.player
                 /\ moveHistory' = SubSeq(moveHistory, 1, top.moveHistoryLength)]_vars

\* C12 witness: two undos have taken back the last two moves of a game of six
C12_Witness_TwoUndos ==
    /\ lastOp.op = "undo" /\ lastOp.outcome = "undone"
    /\ inputs = 2
    /\ Len(moveHistory) = Len(ScriptRace) - 2
    /\ currentBoard = Replay(ScriptRace, Len(ScriptRace) - 2, 1).board
    /\ currentPlayer = 1

\* C13: an undo requested while no game is active (before the first game or
\* after a win or a draw), or while the undo stack is empty, changes neither
\* the live board, the side to move, the move log nor the undo stack.
C13_RejectedUndoChangesNothing ==
    [][(/\ lastOp'.op = "undo"
        /\ inputs' = inputs + 1
        /\ ~isGameActive \/ Len(undoStack) = 0)
        => UNCHANGED <<currentBoard, currentPlayer, moveHistory, undoStack>>]_vars

\* C13 witness: an undo was requested after a game had ended, with
\* checkpoints still on the stack
C13_Witness_UndoAfterEnd ==
    /\ lastOp.op = "undo" /\ lastOp.outcome = "rejected"
    /\ Terminal
    /\ Len(undoStack) > 0

\* C14: a new game started from any state leaves an all-empty live board, an
\* empty move log, an empty undo stack and an active session, with Red to
\* move when the player starts and Yellow when the AI starts.
C14_NewGameResets ==
    [][(lastOp'.op = "newGame" /\ inputs' = inputs + 1)
        => /\ \A r \in RowIdx, c \in ColIdx : currentBoard'[r][c] = 0
           /\ moveHistory' = << >>
           /\ undoStack' = << >>
           /\ isGameActive'
           /\ currentPlayer' = IF playerOrder' = "player" THEN 1 ELSE 2]_vars

\* C14 witness: a game with the AI starting was started after a game had ended
C14_Witness_NewGameAfterEnd ==
    /\ lastOp.op = "newGame"
    /\ Len(storedGames) = 1
    /\ playerOrder = "ai" /\ currentPlayer = 2
    /\ isGameActive

\* C15: one move at a time. At most one move is in flight, and while one is,
\* a column click, an undo request or an AI timer changes nothing of the
\* session (and nothing of the move in flight).
C15_OneMoveAtATime ==
    [][/\ Cardinality(pending') <= 1
       /\ (/\ pending # {}
           /\ \/ lastOp'.op \in {"click", "undo"} /\ inputs' = inputs + 1
              \/ timers' = timers - 1)
          => UNCHANGED <<currentBoard, currentPlayer, gameMode, aiDifficulty, playerOrder,
                         isGameActive, isAnimating, moveHistory, undoStack, currentGameId,
                         pending, storedGames>>]_vars

\* C15 witness: a click was ignored while the AI's move was in its thinking delay
C15_Witness_ClickWhileThinking ==
    /\ lastOp.op = "click" /\ lastOp.outcome = "animating"
    /\ \E k \in pending : k.kind = "aiThink"

\* C16: a stale move is discarded. When a move that was started in an earlier
\* game resumes (after its animation wait or its thinking delay), it changes
\* neither the live board, the move log, the undo stack nor the side to move
\* of the game now in progress.
C16_StaleMoveDiscarded ==
    [][\A k \in pending :
          (k \notin pending' /\ k.game # currentGameId)
              => UNCHANGED <<currentBoard, moveHistory, undoStack, currentPlayer>>]_vars

\* the row a disc dropped in column c comes to rest on (c not blocked)
LandingRow(board, c) ==
    CHOOSE r \in RowIdx : board[r][c] = 0 /\ \A x \in RowIdx : board[x][c] = 0 => x <= r

\* the columns whose next disc completes four in a row for side
WinningColumns(board, side) ==
    {c \in ColIdx :
        /\ ~ColumnBlocked(board, c)
        /\ HasFour([board EXCEPT ![LandingRow(board, c)][c] = side],
                   LandingRow(board, c), c, side)}

Lowest(S) == CHOOSE x \in S : \A y \in S : x <= y

\* a call of the medium tier: getAIMove with difficulty "medium" has returned
MediumCall == tout'.fn = "getAIMove" /\ tout.fn # "getAIMove" /\ tout'.difficulty = "medium"

\* the order of preference the spec gives
PreferenceOrder == <<3, 2, 4, 1, 5, 0, 6>>

\* C17: the medium tier takes the win. When some column completes four in a
\* row for the AI side, the medium tier returns the lowest such column, also
\* when the opponent has a winning column too.
C17_MediumTakesWin ==
    [][MediumCall
        => (WinningColumns(tb, tout'.player) # {}
               => tout'.ret = Lowest(WinningColumns(tb, tout'.player)))]_vars

\* C17 witness: the medium tier has returned its winning column on a board
\* where the opponent has one as well
C17_Witness_WinOverBlock ==
    /\ tout.fn = "getAIMove" /\ tout.difficulty = "medium"
    /\ tout.ret \in WinningColumns(tb, tout.player)
    /\ WinningColumns(tb, Other(tout.player)) # {}

\* C18: the medium tier blocks. When no column wins for the AI side and some
\* column would complete four in a row for the opponent, the medium tier
\* returns the lowest such column.
C18_MediumBlocks ==
    [][MediumCall
        => ((/\ WinningColumns(tb, tout'.player) = {}
             /\ WinningColumns(tb, Other(tout'.player)) # {})
               => tout'.ret = Lowest(WinningColumns(tb, Other(tout'.player))))]_vars

\* C18 witness: the medium tier has returned the column that stops the
\* opponent's four, off the center
C18_Witness_Blocked ==
    /\ tout.fn = "getAIMove" /\ tout.difficulty = "medium"
    /\ WinningColumns(tb, tout.player) = {}
    /\ tout.ret \in WinningColumns(tb, Other(tout.player))
    /\ tout.ret # CENTER_COL

\* C19: center preference. When neither side has a winning column and some
\* column is not full, the medium tier returns the first column of the order
\* 3, 2, 4, 1, 5, 0, 6 that is not full.
C19_MediumPrefersCenter ==
    [][MediumCall
        => ((/\ WinningColumns(tb, tout'.player) = {}
             /\ WinningColumns(tb, Other(tout'.player)) = {}
             /\ \E c \in ColIdx : ~ColumnBlocked(tb, c))
               => \E i \in 1 .. Len(PreferenceOrder) :
                     /\ tout'.ret = PreferenceOrder[i]
                     /\ ~ColumnBlocked(tb, PreferenceOrder[i])
                     /\ \A j \in 1 .. (i - 1) : ColumnBlocked(tb, PreferenceOrder[j]))]_vars

\* C19 witness: with column 3 full and no winning column for either side, the
\* medium tier has returned column 2
C19_Witness_SecondChoice ==
    /\ tout.fn = "getAIMove" /\ tout.difficulty = "medium"
    /\ WinningColumns(tb, 1) = {} /\ WinningColumns(tb, 2) = {}
    /\ ColumnBlocked(tb, PreferenceOrder[1])
    /\ tout.ret = PreferenceOrder[2]

\* some four in a row of side stands on the board
FourOnBoard(board, side) == \E r \in RowIdx, c \in ColIdx : HasFour(board, r, c, side)

\* placing in col is a blunder for side: the disc does not complete a four
\* for side, and the opponent then has a column that completes a four
Blunder(board, col, side) ==
    /\ ~ColumnBlocked(board, col)
    /\ col \notin WinningColumns(board, side)
    /\ WinningColumns([board EXCEPT ![LandingRow(board, col)][col] = side], Other(side)) # {}

\* the legal columns that are no blunder for side
SafeColumns(board, side) ==
    {c \in ColIdx : ~ColumnBlocked(board, c) /\ ~Blunder(board, c, side)}

\* a call of the search tier on a board of a game still in progress has
\* returned: getHardMove itself at the given depth, or getAIMove with
\* difficulty "hard", which searches to HARD_DEPTH
HardCall(minDepth) ==
    /\ \/ tout'.fn = "getHardMove" /\ tout.fn # "getHardMove" /\ tout'.depth >= minDepth
       \/ /\ tout'.fn = "getAIMove" /\ tout.fn # "getAIMove"
          /\ tout'.difficulty = "hard" /\ HARD_DEPTH >= minDepth
    /\ ~FourOnBoard(tb, 1) /\ ~FourOnBoard(tb, 2)

\* C20: the search tier does not blunder. For every search depth of at least
\* 1, the hard tier never returns a column after which the opponent has an
\* immediately winning reply if some legal column exists after which the
\* opponent has no immediately winning reply.
C20_HardNoBlunderFromDepthOne ==
    [][HardCall(1)
        => (SafeColumns(tb, tout'.player) # {} => ~Blunder(tb, tout'.ret, tout'.player))]_vars

\* C20 as it holds: the same for every search depth of at least 2. A search
\* of depth 1 scores the board after its own disc only and never looks at
\* the opponent's reply.
C20_HardNoBlunderFromDepthTwo ==
    [][HardCall(2)
        => (SafeColumns(tb, tout'.player) # {} => ~Blunder(tb, tout'.ret, tout'.player))]_vars

\* C20 witness: a search of depth 2 or more has returned a column that is no
\* blunder on a board where another legal column is one
C20_Witness_BlunderAvoided ==
    /\ tout.fn = "getHardMove" /\ tout.depth >= 2
    /\ ~FourOnBoard(tb, 1) /\ ~FourOnBoard(tb, 2)
    /\ tout.ret \notin WinningColumns(tb, tout.player)
    /\ ~Blunder(tb, tout.ret, tout.player)
    /\ \E c \in ColIdx : Blunder(tb, c, tout.player)

\* C21: the search tier prefers the fastest win. Whenever some legal column
\* completes four in a row for the AI side immediately, the hard tier (at any
\* depth of at least 1) returns an immediately winning column, never a column
\* that only wins later or does not win.
C21_HardTakesImmediateWin ==
    [][HardCall(1)
        => (WinningColumns(tb, tout'.player) # {}
               => tout'.ret \in WinningColumns(tb, tout'.player))]_vars

\* C21 witness: a search of depth 2 or more has returned the winning column
\* on a board where the opponent has a winning column too and a lower column
\* is free
C21_Witness_WinBeforeBlock ==
    /\ tout.fn = "getHardMove" /\ tout.depth >= 2
    /\ ~FourOnBoard(tb, 1) /\ ~FourOnBoard(tb, 2)
    /\ tout.ret \in WinningColumns(tb, tout.player)
    /\ WinningColumns(tb, Other(tout.player)) # {}
    /\ \E c \in ColIdx : c < tout.ret /\ ~ColumnBlocked(tb, c)

\* the board with a disc of side resting in column c (c not blocked)
PlaceIn(board, c, side) == [board EXCEPT ![LandingRow(board, c)][c] = side]

FreeColumns(board) == {c \in ColIdx : ~ColumnBlocked(board, c)}

Greatest(S) == CHOOSE x \in S : \A y \in S : x >= y

\* the minimax value of a position without pruning: the evaluator at depth 0,
\* a finished four biased by the depth left, 0 with no column to play, and
\* otherwise the best of the values of the positions one disc further
RECURSIVE PlainValue(_, _, _, _)
PlainValue(board, depth, isMaximizing, aiPlayer) ==
    IF depth = 0 THEN evaluateBoard(board, aiPlayer)
    ELSE IF FourOnBoard(board, aiPlayer) THEN WIN_SCORE + depth
    ELSE IF FourOnBoard(board, Other(aiPlayer)) THEN -WIN_SCORE - depth
    ELSE IF FreeColumns(board) = {} THEN 0
    ELSE LET side == IF isMaximizing THEN aiPlayer ELSE Other(aiPlayer)
             vals == {PlainValue(PlaceIn(board, c, side), depth - 1, ~isMaximizing, aiPlayer) :
                         c \in FreeColumns(board)}
         IN  IF isMaximizing THEN Greatest(vals) ELSE Lowest(vals)

\* the minimax score of playing column c at the given search depth
ColumnScore(board, c, aiPlayer, depth) ==
    PlainValue(PlaceIn(board, c, aiPlayer), depth - 1, FALSE, aiPlayer)

\* the legal columns whose minimax score is maximal
BestColumns(board, aiPlayer, depth) ==
    LET score == [c \in FreeColumns(board) |-> ColumnScore(board, c, aiPlayer, depth)]
        best == Greatest({score[c] : c \in FreeColumns(board)})
    IN  {c \in FreeColumns(board) : score[c] = best}

\* the search depth of the hard call that has returned
CallDepth(t) == IF t.fn = "getHardMove" THEN t.depth ELSE HARD_DEPTH

\* C22: tie-break and determinism of the search tier. The hard tier returns
\* the lowest-index legal column among those whose minimax score is maximal,
\* so the same board and side always give the same column.
C22_HardLowestBestColumn ==
    [][(HardCall(1) /\ FreeColumns(tb) # {})
        => tout'.ret = Lowest(BestColumns(tb, tout'.player, CallDepth(tout')))]_vars

\* C22 witness: the search has returned a column that is not the first legal
\* one, with a higher column of the same score
C22_Witness_TieKeptFirst ==
    /\ tout.fn = "getHardMove"
    /\ ~FourOnBoard(tb, 1) /\ ~FourOnBoard(tb, 2)
    /\ \E c \in FreeColumns(tb) : c < tout.ret
    /\ \E c \in FreeColumns(tb) :
          /\ c > tout.ret
          /\ ColumnScore(tb, c, tout.player, tout.depth)
                = ColumnScore(tb, tout.ret, tout.player, tout.depth)

\* minimax has returned from a position with no column to play and no four
\* in a row for either side
DrawnPositionScored ==
    /\ tout'.fn = "minimax" /\ tout.fn # "minimax"
    /\ FreeColumns(tb) = {}
    /\ ~FourOnBoard(tb, 1) /\ ~FourOnBoard(tb, 2)

\* C23: inside the search, a position that has no legal moves and no four in
\* a row for either side is scored 0 (draw), whatever the remaining depth,
\* including remaining depth 0; the evaluator's heuristic score is used at
\* depth 0 only for positions that are not terminal.
C23_DrawScoresZero ==
    [][DrawnPositionScored => tout'.ret = 0]_vars

\* line is 4 cells of the board, one step apart along one axis (in either
\* sense), each holding side
AlignedFour(board, line, side) ==
    /\ Len(line) = WIN_LENGTH
    /\ \A i \in 1 .. Len(line) : InBoard(line[i][1], line[i][2]) /\ board[line[i][1]][line[i][2]] = side
    /\ \A i, j \in 1 .. Len(line) : i # j => line[i] # line[j]
    /\ \E d \in FourAxes, sense \in {1, -1} :
          \A i \in 1 .. (Len(line) - 1) :
              /\ line[i + 1][1] = line[i][1] + sense * d[1]
              /\ line[i + 1][2] = line[i][2] + sense * d[2]

\* C24: whenever checkWin(board, r, c, side) reports a win, for every board,
\* every cell and every side, the returned line has exactly 4 distinct
\* in-bounds cells that are consecutive along one axis, include (r, c) and
\* each hold that side; checkWin never reports a win for a side that does
\* not own four aligned cells.
C24_WinLineIsOwnedFour ==
    (tout.fn = "checkWin" /\ tout.ret.win)
        => /\ AlignedFour(tb, tout.ret.line, tout.player)
           /\ \E i \in 1 .. Len(tout.ret.line) : tout.ret.line[i] = <<tout.row, tout.col>>

\* the axes in the order the spec lists them: horizontal, vertical,
\* down-right diagonal, down-left diagonal
AxisOrder == << <<0, 1>>, <<1, 0>>, <<1, 1>>, <<1, -1>> >>

\* how many cells (at most WIN_LENGTH - 1) next to (r, c) in the sense
\* (dr, dc) are on the board and hold side, without a gap
Reach(board, r, c, dr, dc, side) ==
    LET ok(n) == \A i \in 1 .. n :
                     InBoard(r + i * dr, c + i * dc) /\ board[r + i * dr][c + i * dc] = side
    IN  CHOOSE n \in 0 .. (WIN_LENGTH - 1) :
            ok(n) /\ \A m \in (n + 1) .. (WIN_LENGTH - 1) : ~ok(m)

\* the backward cells taken into the run: none when the forward cells
\* complete the four
BackReach(board, r, c, d, side) ==
    IF 1 + Reach(board, r, c, d[1], d[2], side) >= WIN_LENGTH THEN 0
    ELSE Reach(board, r, c, -d[1], -d[2], side)

\* the axis d qualifies at (r, c): the assembled run has 4 cells or more
Qualifies(board, r, c, d, side) ==
    BackReach(board, r, c, d, side) + 1 + Reach(board, r, c, d[1], d[2], side) >= WIN_LENGTH

\* the first 4 cells of the run assembled along d: backward cells (farthest
\* first), the origin, forward cells
RunFour(board, r, c, d, side) ==
    LET b == BackReach(board, r, c, d, side)
    IN  [i \in 1 .. WIN_LENGTH |-> <<r + (i - 1 - b) * d[1], c + (i - 1 - b) * d[2]>>]

\* C25: checkWin picks one deterministic line. It reports a win exactly when
\* some axis qualifies, and the line is then the first 4 cells of the run
\* assembled (backward cells, the origin, forward cells) on the first
\* qualifying axis in the order horizontal, vertical, down-right diagonal,
\* down-left diagonal.
C25_FirstAxisFirstFour ==
    tout.fn = "checkWin"
        => LET q == {k \in 1 .. Len(AxisOrder) :
                        Qualifies(tb, tout.row, tout.col, AxisOrder[k], tout.player)}
           IN  /\ tout.ret.win <=> q # {}
               /\ q # {} => tout.ret.line
                               = RunFour(tb, tout.row, tout.col, AxisOrder[Lowest(q)], tout.player)

\* C25 witness: a win reported from a cell of the side where the vertical and
\* a diagonal both qualify, the horizontal does not, and cells of the run lie
\* behind the origin
C25_Witness_VerticalBeforeDiagonal ==
    /\ tout.fn = "checkWin" /\ tout.ret.win
    /\ tb[tout.row][tout.col] = tout.player
    /\ ~Qualifies(tb, tout.row, tout.col, AxisOrder[1], tout.player)
    /\ Qualifies(tb, tout.row, tout.col, AxisOrder[2], tout.player)
    /\ Qualifies(tb, tout.row, tout.col, AxisOrder[3], tout.player)
    /\ tout.ret.line[1] # <<tout.row, tout.col>>
    /\ tout.ret.line[1][2] = tout.col

\* the board with Red and Yellow swapped in every cell
Relabel(board) ==
    [r \in RowIdx |-> [c \in ColIdx |-> IF board[r][c] = 0 THEN 0 ELSE Other(board[r][c])]]

\* C26: checkWin is symmetric under relabeling. For every board, cell and
\* side, swapping Red and Yellow in every cell and in the queried side gives
\* the same win / no-win result and the same line.
C26_CheckWinRelabelSymmetric ==
    tout.fn = "checkWin"
        => checkWin(Relabel(tb), tout.row, tout.col, Other(tout.player)) = tout.ret

\* C26 witness: a win reported for Yellow on a board that holds Red cells too
C26_Witness_YellowWinAmongRed ==
    /\ tout.fn = "checkWin" /\ tout.ret.win /\ tout.player = 2
    /\ tb[tout.row][tout.col] = 2
    /\ \E r \in RowIdx, c \in ColIdx : tb[r][c] = 1
    /\ checkWin(Relabel(tb), tout.row, tout.col, 1).win

\* the discs of side in column c
DiscsIn(board, c, side) == Cardinality({r \in RowIdx : board[r][c] = side})

\* the pairs of adjacent cells along one of the four axes that both hold side
AdjacentPairs(board, side) ==
    Cardinality({p \in (RowIdx \X ColIdx) \X FourAxes :
                    /\ InBoard(p[1][1] + p[2][1], p[1][2] + p[2][2])
                    /\ board[p[1][1]][p[1][2]] = side
                    /\ board[p[1][1] + p[2][1]][p[1][2] + p[2][2]] = side})

\* the reference score of the board for side
ReferenceScore(board, side) ==
    IF FourOnBoard(board, side) THEN 10000
    ELSE IF FourOnBoard(board, Other(side)) THEN -10000
    ELSE 3 * (DiscsIn(board, 3, side) - DiscsIn(board, 3, Other(side)))
         + 2 * (AdjacentPairs(board, side) - AdjacentPairs(board, Other(side)))

C28_DropLowersLowestEmptyRowByOne ==
    [][(tout'.fn = "dropDisc" /\ tout'.ret.success /\ NoFloating(tb))
        => \A c \in ColIdx :
              getLowestEmptyRow(tb', c)
                = IF c = tout'.col THEN getLowestEmptyRow(tb, c) - 1
                                  ELSE getLowestEmptyRow(tb, c)]_vars

\* C28 witness: a drop has landed on row 0 and the column now reads -1, with
\* another column still open
C28_Witness_ColumnFilled ==
    /\ tout.fn = "dropDisc" /\ tout.ret.success /\ tout.ret.row = 0
    /\ getLowestEmptyRow(tb, tout.col) = -1
    /\ \E c \in ColIdx : getLowestEmptyRow(tb, c) >= 0

\* the cells of column c that hold a disc
Height(board, c) == Cardinality({r \in RowIdx : board[r][c] # 0})

\* C29: on every board reachable by drops, for every column in 0..6,
\* isColumnFull(board, col) is true if and only if the column has no empty
\* cell, i.e. if and only if getLowestEmptyRow(board, col) is -1 and dropDisc
\* on that column fails; a column is full after exactly 6 drops and the 7th
\* drop is rejected.
C29_ColumnFullIffNoEmptyCell ==
    (tout.fn = "isColumnFull" /\ tout.col \in ColIdx)
        => /\ tout.ret <=> (\A r \in RowIdx : tb[r][tout.col] # 0)
           /\ tout.ret <=> Height(tb, tout.col) = ROWS
           /\ tout.ret <=> getLowestEmptyRow(tb, tout.col) = -1
           /\ \A player \in {1, 2} :
                 tout.ret <=> (/\ ~dropDiscResult(tb, tout.col, player).success
                               /\ dropDiscBoard(tb, tout.col, player) = tb)

\* C29 witness: isColumnFull has answered true for a column of 6 discs next
\* to a column of 5
C29_Witness_FullNextToFive ==
    /\ tout.fn = "isColumnFull" /\ tout.ret /\ tout.col \in ColIdx
    /\ Height(tb, tout.col) = ROWS
    /\ \E c \in ColIdx : Height(tb, c) = ROWS - 1 /\ ~isColumnFull(tb, c)

\* is s strictly ascending
Ascending(s) == \A i \in 1 .. (Len(s) - 1) : s[i] < s[i + 1]

\* C30: getAvailableMoves(board) returns, in strictly ascending order and
\* without duplicates, exactly the columns 0..6 that are not full: all seven
\* on the empty board, none on a full board, and on every reachable board
\* exactly the columns on which dropDisc would succeed.
C30_AvailableMovesAreOpenColumns ==
    tout.fn = "getAvailableMoves"
        => /\ Ascending(tout.ret)
           /\ {tout.ret[i] : i \in 1 .. Len(tout.ret)} = FreeColumns(tb)
           /\ \A c \in ColIdx, player \in {1, 2} :
                 InSeq(c, tout.ret) <=> dropDiscResult(tb, c, player).success
           /\ tb = createBoard => tout.ret = <<0, 1, 2, 3, 4, 5, 6>>
           /\ AllOccupied(tb) => tout.ret = << >>

\* C30 witness: getAvailableMoves has returned two columns that are not
\* neighbours, a full column between them
C30_Witness_GapInList ==
    /\ tout.fn = "getAvailableMoves" /\ Len(tout.ret) = 2
    /\ tout.ret[2] > tout.ret[1] + 1
    /\ \E c \in ColIdx : tout.ret[1] < c /\ c < tout.ret[2] /\ Height(tb, c) = ROWS

RECURSIVE ReplayCells(_, _, _)
ReplayCells(moves, i, board) ==
    IF i > Len(moves) THEN board
    ELSE ReplayCells(moves, i + 1, SetCell(board, moves[i].row, moves[i].column, moves[i].player))

\* handleGameOver has run in this step: a record was handed to saveGame
GameOverStep == isGameActive /\ ~isGameActive'

\* C32: the record emitted at game over is consistent with the game. Its
\* move list ends with the final (winning or board-filling) move, its winner
\* is the side of that last move or null (0) for a draw, its final board
\* equals the live board, and placing its moves in order at their recorded
\* (row, column) on an empty board reproduces that final board.
C32_GameRecordConsistent ==
    [][GameOverStep
        => LET item == storedGames'[Len(storedGames')]
               last == item.moves[Len(item.moves)]
           IN  /\ Len(item.moves) > 0
               /\ last.column = lastOp'.col
               /\ currentBoard'[last.row][last.column] = last.player
               /\ item.winner = IF lastOp'.outcome = "win" THEN last.player ELSE 0
               /\ lastOp'.outcome = "win" => HasFour(currentBoard', last.row, last.column, last.player)
               /\ lastOp'.outcome # "win" => AllOccupied(currentBoard')
               /\ item.finalBoard = currentBoard'
               /\ ReplayCells(item.moves, 1, createBoard) = item.finalBoard]_vars

\* every game stored before the step is stored after it (games are told
\* apart by their id), in the same order
HistoryKept ==
    \/ storedGames' = storedGames
    \/ LET n == Len(storedGames)
           at(i) == CHOOSE j \in 1 .. Len(storedGames') : storedGames'[j].id = storedGames[i].id
       IN  /\ \A i \in 1 .. n :
                 \E j \in 1 .. Len(storedGames') : storedGames'[j] = storedGames[i]
           /\ \A i \in 1 .. (n - 1) : at(i) < at(i + 1)

\* the game that ended in this step is the last of the stored history
EndedGameStoredLast ==
    /\ Len(storedGames') > 0
    /\ storedGames'[Len(storedGames')].id = currentGameId
    /\ storedGames'[Len(storedGames')].moves = moveHistory'

AITurnIdle ==
    /\ gameMode = "ai" /\ isGameActive /\ currentPlayer = 2
    /\ ~isAnimating /\ pending = {}

\* makeAIMove has just dropped the AI's disc
AIPlaced == lastOp.op = "aiThought" /\ lastOp.outcome = "dropped"

\* C34: the AI turn is always served. In human-vs-AI mode, from every
\* reachable state in which the game is active, it is the AI's turn and no
\* move is in flight, the AI eventually places a disc without further user
\* input (timers firing), also in states reached by undo.
C34_AITurnServed ==
    \A n \in 0 .. MaxInputs :
        (AITurnIdle /\ inputs = n) ~> (AIPlaced \/ inputs # n)

\* discs on the live board (none before the first game creates a board)
LiveDiscs(board) == IF board = NullBoard THEN 0 ELSE DiscCount(board)

\* C35: in a human-vs-human game the AI move path never places a disc: every
\* step that adds a disc to the live board of a human-vs-human game is the
\* acceptance of a column click, also when the timer of an earlier
\* human-vs-AI game is still pending.
C35_HumanGameDiscsFromClicks ==
    [][(gameMode' = "human" /\ LiveDiscs(currentBoard') > LiveDiscs(currentBoard))
          => (lastOp'.op = "click" /\ lastOp'.outcome = "accepted")]_vars

\* the game is active and no move is in flight
ActiveIdle ==
    /\ isGameActive /\ ~isAnimating /\ pending = {}
    /\ currentBoard # NullBoard

\* C36: checking only the landing cell never misses a win. Whenever the game
\* is active and no move is in flight, the live board holds no four
\* consecutive cells of one side on any axis, after any sequence of moves, AI
\* moves and undos.
C36_NoFourWhileActive ==
    ActiveIdle => \A side \in {1, 2} : ~FourOnBoard(currentBoard, side)

\* C36 witness: a move has finished without a win on a board of six discs or
\* more, and the game goes on
C36_Witness_GameGoesOn ==
    /\ ActiveIdle
    /\ lastOp.op \in {"moveDone", "aiDone"} /\ lastOp.outcome = "continue"
    /\ DiscCount(currentBoard) >= 6

\* the move whose call has just finished
LastMove(moves) == moves[Len(moves)]

\* a move has just finished on a board without an empty cell, and its disc
\* completes four in a row for the mover
LastCellWins ==
    /\ Len(moveHistory') = Len(moveHistory) + 1
    /\ isBoardFull(currentBoard)
    /\ LET m == LastMove(moveHistory')
       IN  HasFour(currentBoard, m.row, m.column, m.player)

\* C37: win takes precedence over draw. If the placement that fills the last
\* empty cell of the board also completes four in a row for the mover, the
\* game ends as a win for the mover with its win line, not as a draw.
C37_WinBeforeDraw ==
    [][LastCellWins
        => LET m == LastMove(moveHistory')
           IN  /\ ~isGameActive'
               /\ lastOp'.outcome = "win"
               /\ AlignedFour(currentBoard, lastOp'.line, m.player)
               /\ Len(storedGames') = Len(storedGames) + 1
               /\ storedGames'[Len(storedGames')].winner = m.player]_vars

\* C37 witness: the game has ended as a win on a board without an empty cell
C37_Witness_FullBoardWin ==
    /\ ~isGameActive
    /\ lastOp.outcome = "win"
    /\ currentBoard # NullBoard /\ isBoardFull(currentBoard)
    /\ storedGames # << >> /\ storedGames[Len(storedGames)].winner = 2

\* no makeMove or makeAIMove call is suspended at an await
NoMoveInFlight == ~isAnimating /\ pending = {}

\* C38: whenever no move is in flight, the undo stack depth, the move log
\* length and the number of discs on the live board are all equal, the i-th
\* checkpoint records log length i-1, and the undo stack never holds more
\* than 42 checkpoints.
C38_StackLogBoardAgree ==
    NoMoveInFlight
        => /\ Len(undoStack) = Len(moveHistory)
           /\ Len(moveHistory) = LiveDiscs(currentBoard)
           /\ \A i \in 1 .. Len(undoStack) : undoStack[i].moveHistoryLength = i - 1
           /\ Len(undoStack) <= ROWS * COLS

\* this step accepts a move: makeMove or makeAIMove drops its disc and
\* suspends at the animation wait
MoveAccepted == \E k \in pending' \ pending : k.kind \in {"move", "aiAnim"}

\* this step finishes a move: its call resumes after the animation wait
MoveFinished == \E k \in pending \ pending' : k.kind \in {"move", "aiAnim"}

\* C39: every game ends. Each accepted move adds exactly one disc to the live
\* board, which a new game starts empty, so in a game without undo the discs
\* on the board count the accepted moves; and the move that finishes with the
\* 42nd disc on the board leaves the session Terminal, so that no game without
\* undo has a 43rd accepted move.
C39_EndsByMove42 ==
    [][/\ MoveAccepted
           => /\ LiveDiscs(currentBoard') = LiveDiscs(currentBoard) + 1
              /\ LiveDiscs(currentBoard') <= ROWS * COLS
       /\ (MoveFinished /\ LiveDiscs(currentBoard) = ROWS * COLS)
           => (~isGameActive' /\ lastOp'.outcome \in {"win", "draw"})
       /\ (lastOp'.op = "newGame" /\ lastOp'.outcome = "started" /\ inputs' # inputs)
           => LiveDiscs(currentBoard') = 0]_vars

\* C39 witness: a game played without undo has ended with its 42nd accepted
\* move, no side winning
C39_Witness_EndedAtMove42 ==
    /\ Terminal
    /\ lastOp.op \in {"moveDone", "aiDone"} /\ lastOp.outcome = "draw"
    /\ LiveDiscs(currentBoard) = ROWS * COLS
    /\ Len(undoStack) = ROWS * COLS

\* the search of minimax with pruning disabled: the same depth test, the same
\* scan for a finished four, the same columns, every one of them searched
RECURSIVE PlainMinimax(_, _, _, _, _)
PlainMinimax(board, depth, isMaximizing, aiPlayer, opponent) ==
    IF depth = 0 THEN evaluateBoard(board, aiPlayer)
    ELSE LET w == WinScan(board, aiPlayer, opponent, 0)
             moves == getAvailableMoves(board)
             side == IF isMaximizing THEN aiPlayer ELSE opponent
         IN  IF w = 1 THEN WIN_SCORE + depth
             ELSE IF w = -1 THEN -WIN_SCORE - depth
             ELSE IF Len(moves) = 0 THEN 0
             ELSE LET vals == {PlainMinimax(dropDiscBoard(board, moves[k], side), depth - 1,
                                            ~isMaximizing, aiPlayer, opponent) :
                                  k \in 1 .. Len(moves)}
                  IN  IF isMaximizing THEN Greatest(vals) ELSE Lowest(vals)

\* the column of the hard tier with pruning disabled: the columns scored in
\* ascending order, the first one of the greatest score kept
PlainHardMove(board, aiPlayer, depth) ==
    LET moves == getAvailableMoves(board)
        score == [k \in 1 .. Len(moves) |->
                     PlainMinimax(dropDiscBoard(board, moves[k], aiPlayer), depth - 1, FALSE,
                                  aiPlayer, Other(aiPlayer))]
        best == Greatest({score[k] : k \in 1 .. Len(moves)})
    IN  moves[Lowest({k \in 1 .. Len(moves) : score[k] = best})]

\* a call of the search tier has returned, on any board with a column to play
AnyHardCall ==
    /\ \/ tout'.fn = "getHardMove" /\ tout.fn # "getHardMove"
       \/ tout'.fn = "getAIMove" /\ tout.fn # "getAIMove" /\ tout'.difficulty = "hard"
    /\ Len(getAvailableMoves(tb)) > 0

\* C40: alpha-beta pruning does not change the result. For every board and
\* side, the column returned by the hard tier equals the column returned by
\* the same search with pruning disabled (same depth, same ascending column
\* order, same tie-break).
C40_PruningKeepsColumn ==
    [][AnyHardCall => tout'.ret = PlainHardMove(tb, tout'.player, CallDepth(tout'))]_vars

\* in the search of depth 3 from board for side, a branch is cut off under the
\* column c: the opponent's first reply has the exact score v1, and under the
\* opponent's second reply the first column scored reaches v1 while another
\* column is still to be scored
CutsOffUnder(board, c, side) ==
    LET opp == Other(side)
        b1 == dropDiscBoard(board, c, side)
        replies == getAvailableMoves(b1)
    IN  /\ WinScan(b1, side, opp, 0) = 0
        /\ Len(replies) >= 2
        /\ LET bA == dropDiscBoard(b1, replies[1], opp)
               bB == dropDiscBoard(b1, replies[2], opp)
               movesB == getAvailableMoves(bB)
           IN  /\ WinScan(bB, side, opp, 0) = 0
               /\ Len(movesB) >= 2
               /\ evaluateBoard(dropDiscBoard(bB, movesB[1], side), side)
                      >= PlainMinimax(bA, 1, TRUE, side, opp)

\* C40 witness: a search of depth 3 in which a branch was cut off has
\* returned the column of the search without pruning
C40_Witness_BranchCutOff ==
    /\ tout.fn = "getHardMove" /\ tout.depth = 3
    /\ Len(getAvailableMoves(tb)) >= 2
    /\ \E k \in 1 .. Len(getAvailableMoves(tb)) :
          CutsOffUnder(tb, getAvailableMoves(tb)[k], tout.player)
    /\ tout.ret = PlainHardMove(tb, tout.player, 3)
=============================================================================
